---- MODULE Spec2Model ----
(***************************************************************************)
(* State-machine model of the devpage entity simulation engine:            *)
(*   dna.js (gene registry, DNA), entity.js (Entity), evolution.js         *)
(*   (EvolutionController), logoLetter.js / logoController.js (logo word). *)
(*                                                                         *)
(* Numbers.  JavaScript numbers are modelled in fixed point:               *)
(*   - lengths and velocities in 1/U pixel (U units = 1 px),               *)
(*   - gene values, probabilities, Math.random() draws and unit vectors    *)
(*     in 1/F (F units = 1.0),                                             *)
(*   - angles in whole degrees.                                            *)
(* Every product of two scaled numbers is rounded to the nearest unit by   *)
(* Rnd, which is odd-symmetric (Rnd(-a,b) = -Rnd(a,b)).                    *)
(***************************************************************************)
EXTENDS Integers, Sequences, FiniteSets, TLC

\* ---------------------------------------------------------------------------
\* Fixed-point resolution
\* ---------------------------------------------------------------------------
U == 100
F == 10000

Abs(a) == IF a < 0 THEN -a ELSE a
Max(a, b) == IF a >= b THEN a ELSE b
Min(a, b) == IF a <= b THEN a ELSE b
Sign(a) == IF a < 0 THEN -1 ELSE IF a > 0 THEN 1 ELSE 0

\* a / b rounded to the nearest integer, halves away from zero (b > 0).
Rnd(a, b) == Sign(a) * ((2 * Abs(a) + b) \div (2 * b))

\* Integer square root (floor), by bisection on [lo, hi].
RECURSIVE SqrtBetween(_, _, _)
SqrtBetween(n, lo, hi) ==
    IF lo >= hi THEN lo
    ELSE LET mid == (lo + hi + 1) \div 2
         IN  IF mid * mid <= n THEN SqrtBetween(n, mid, hi)
                               ELSE SqrtBetween(n, lo, mid - 1)

\* Math.hypot(dx, dy), to the nearest unit.
Hypot(dx, dy) ==
    LET n == dx * dx + dy * dy
        s == SqrtBetween(n, 0, Abs(dx) + Abs(dy))
    IN  IF n - s * s > s THEN s + 1 ELSE s

\* tan((k + 1/2) degrees) * F for k = 0 .. 44: the decision thresholds of a
\* nearest-degree arctangent on the first octant.
TanMid ==
    << 87, 262, 437, 612, 787, 963, 1139, 1317, 1495, 1673,
       1853, 2035, 2217, 2401, 2586, 2773, 2962, 3153, 3346, 3541,
       3739, 3939, 4142, 4348, 4557, 4770, 4986, 5206, 5430, 5658,
       5890, 6128, 6371, 6619, 6873, 7133, 7400, 7673, 7954, 8243,
       8541, 8847, 9163, 9490, 9827 >>

\* atan(p / q) in whole degrees for 0 <= p <= q, q > 0.
AtanOctant(p, q) == Cardinality({k \in 1..45 : p * F >= TanMid[k] * q})

\* Math.atan2(y, x) in whole degrees, in (-180, 180]; atan2(0, 0) = 0.
Atan2Deg(y, x) ==
    LET ax == Abs(x)
        ay == Abs(y)
        a  == IF ax = 0 /\ ay = 0 THEN 0
              ELSE IF ax >= ay THEN AtanOctant(ay, ax)
              ELSE 90 - AtanOctant(ax, ay)
        b  == IF x >= 0 THEN a ELSE 180 - a
    IN  IF y >= 0 THEN b ELSE IF b = 180 THEN 180 ELSE -b

\* Math.cos / Math.sin of the spawn and division angles the model draws
\* (multiples of 90 degrees and the 3-4-5 directions), in 1/F.
Directions ==
    { <<F, 0>>, <<0, F>>, <<-F, 0>>, <<0, -F>>,
      <<(3 * F) \div 5, (4 * F) \div 5>>, <<-((4 * F) \div 5), (3 * F) \div 5>> }

\* ---------------------------------------------------------------------------
\* Math.random()
\* ---------------------------------------------------------------------------
\* The draws of Math.random() the model considers, in 1/F: the least value 0,
\* a middle value, and the greatest value below 1.
Rolls == {0, F \div 2, F - 1}

\* A faulty variant of the comparison below: `<=` instead of `<`.
RandLessEq(r, p) == r <= p

\* `Math.random() < p` for the draw r.
RandLess(r, p) == r < p

\* Whether the test `Math.random() < p` can succeed / can fail.
CanPass(p) == \E r \in Rolls : RandLess(r, p)
CanFail(p) == \E r \in Rolls : ~RandLess(r, p)

\* ---------------------------------------------------------------------------
\* dna.js : gene registry
\* ---------------------------------------------------------------------------
GeneNames == {"speed", "resistance", "shield", "division_rate", "hunt_speed", "lethality"}

GENE_DEFS ==
    [g \in GeneNames |->
        CASE g = "speed"         -> [min |-> (7 * F) \div 10,  max |-> (15 * F) \div 10,  default |-> F, applies |-> "cell"]
          [] g = "resistance"    -> [min |-> 0,                max |-> (60 * F) \div 100, default |-> 0, applies |-> "cell"]
          [] g = "shield"        -> [min |-> 0,                max |-> F,                 default |-> 0, applies |-> "cell"]
          [] g = "division_rate" -> [min |-> (5 * F) \div 10,  max |-> (25 * F) \div 10,  default |-> F, applies |-> "cell"]
          [] g = "hunt_speed"    -> [min |-> (8 * F) \div 10,  max |-> (20 * F) \div 10,  default |-> F, applies |-> "virus"]
          [] g = "lethality"     -> [min |-> 0,                max |-> (35 * F) \div 100, default |-> 0, applies |-> "virus"]]

GeneRange(g) == GENE_DEFS[g].max - GENE_DEFS[g].min

\* A faulty variant of the clamp below: the value is stored as it is.
ClampNone(g, v) == v

\* Math.max(def.min, Math.min(def.max, v))
Clamp(g, v) == Max(GENE_DEFS[g].min, Min(GENE_DEFS[g].max, v))

\* A DNA is the Map #genes: a function from its active gene names to values.
EmptyDna == [g \in {} |-> 0]
DnaHas(d, g) == g \in DOMAIN d
DnaSize(d) == Cardinality(DOMAIN d)
DnaGet(d, g) ==
    IF g \in DOMAIN d THEN d[g]
    ELSE IF g \in GeneNames THEN GENE_DEFS[g].default ELSE 0
DnaSet(d, g, v) == [k \in (DOMAIN d) \cup {g} |-> IF k = g THEN v ELSE d[k]]
DnaDelete(d, g) == [k \in (DOMAIN d) \ {g} |-> d[k]]

\* The draws of Math.random() used for a drift amount.
DriftDraws == {0, F \div 2, (3 * F) \div 4}

\* (def.max - def.min) * 0.15 * (Math.random() * 2 - 1), for the draw r.
DriftAmount(g, r) == Rnd(Rnd(GeneRange(g) * 15, 100) * (2 * r - F), F)

\* reproduce, step 1, for one gene: the values it may hold afterwards.
GeneDriftChoices(g, v, mutationRate) ==
    (IF CanFail(mutationRate) \/ g \notin GeneNames THEN {v} ELSE {})
    \cup
    (IF CanPass(mutationRate) /\ g \in GeneNames
        THEN {Clamp(g, v + DriftAmount(g, r)) : r \in DriftDraws}
        ELSE {})

\* reproduce, step 1, over the genes S of d.
RECURSIVE DriftAll(_, _, _)
DriftAll(d, S, mutationRate) ==
    IF S = {} THEN {d}
    ELSE LET g == CHOOSE x \in S : TRUE
         IN  { [e EXCEPT ![g] = v] :
                  e \in DriftAll(d, S \ {g}, mutationRate),
                  v \in GeneDriftChoices(g, d[g], mutationRate) }

\* def.min + (def.max - def.min) * 0.1
EmergeValue(g) == GENE_DEFS[g].min + Rnd(GeneRange(g), 10)

\* reproduce, step 2.
EmergeAll(d, mutationRate, pool) ==
    LET p          == Rnd(mutationRate * 4, 10)
        candidates == {k \in GeneNames : GENE_DEFS[k].applies = pool /\ ~DnaHas(d, k)}
    IN  (IF CanFail(p) \/ candidates = {} THEN {d} ELSE {})
        \cup
        (IF CanPass(p) THEN {DnaSet(d, k, EmergeValue(k)) : k \in candidates} ELSE {})

\* reproduce, step 3.
SilenceAll(d, mutationRate) ==
    LET p == Rnd(mutationRate * 15, 100)
    IN  (IF DnaSize(d) = 0 \/ CanFail(p) THEN {d} ELSE {})
        \cup
        (IF DnaSize(d) > 0 /\ CanPass(p) THEN {DnaDelete(d, k) : k \in DOMAIN d} ELSE {})

\* DNA.reproduce(mutationRate, pool): every DNA it can return.
ReproduceOutcomes(d, mutationRate, pool) ==
    UNION { UNION { SilenceAll(d2, mutationRate) : d2 \in EmergeAll(d1, mutationRate, pool) } :
            d1 \in DriftAll(d, DOMAIN d, mutationRate) }

\* JSON values.  A number is [type |-> "number", v |-> n]; a plain object is
\* [type |-> "object", fields |-> f] with f a function from its keys to JSON
\* values; null, strings and the like are [type |-> "null"], [type |-> "string"].
JsNum(n) == [type |-> "number", v |-> n]
JsObj(f) == [type |-> "object", fields |-> f]
JsNull == [type |-> "null"]
JsStr == [type |-> "string"]

\* DNA.serialise(): Object.fromEntries(#genes).
Serialise(d) == JsObj([k \in DOMAIN d |-> JsNum(d[k])])

\* Names that GENE_DEFS[key] finds although GENE_DEFS does not define them:
\* GENE_DEFS is an object literal, and a property lookup on it also finds what
\* every object inherits.  The value found has no min and no max.
InheritedNames == {"constructor", "toString"}

\* The value NaN of a stored gene: Math.max(undefined, Math.min(undefined, v)).
NaN == -(2 ^ 30)

\* DNA.deserialise(obj)
Deserialise(obj) ==
    IF obj.type # "object" THEN EmptyDna
    ELSE [k \in {x \in DOMAIN obj.fields :
                    x \in GeneNames \cup InheritedNames /\ obj.fields[x].type = "number"}
            |-> IF k \in GeneNames THEN Clamp(k, obj.fields[k].v) ELSE NaN]

\* def.min + (def.max - def.min) * 0.15
WithGenesValue(g) == GENE_DEFS[g].min + Rnd(GeneRange(g) * 15, 100)

\* DNA.withGenes(geneNames)
WithGenes(geneNames) == [g \in {x \in geneNames : x \in GeneNames} |-> WithGenesValue(g)]

\* DNA.forVirus(cellDNA); every caller passes the host's DNA.
ForVirus(cellDNA) ==
    LET resistance == DnaGet(cellDNA, "resistance")
    IN  IF resistance > (15 * F) \div 100
           THEN [g \in {"lethality"} |-> Min(GENE_DEFS["lethality"].max, Rnd(resistance * 55, 100))]
           ELSE EmptyDna

\* ---------------------------------------------------------------------------
\* constants.js : DEFAULTS
\* ---------------------------------------------------------------------------
ICON_SIZE == 24 * U
ICON_HALF == 12 * U
MOVE_SPEED == 5
BASE_SPEED == (8 * U) \div 10
MAX_SPEED_FACTOR == (25 * F) \div 10
DRIFT_CHANCE == (2 * F) \div 100
DRIFT_MAGNITUDE == (25 * U) \div 100
COLLISION_DIAMETER == 24 * U
VIRUS_KILL_CHANCE == (9 * F) \div 10
MUTATION_RATE == F \div 10
DIVISION_INTERVAL_MIN == 900
DIVISION_INTERVAL_MAX == 3600
MIN_CELL_COUNT == 2
MAX_POPULATION == 50
LOGO_LETTER_HALF == 18 * U
LOGO_LETTER_GAP == 32 * U
LOGO_WORD_BASE_SPEED == (8 * U) \div 100
LOGO_BUMP_THRESHOLD_MIN == 1000
LOGO_BUMP_THRESHOLD_MAX == 1200
LOGO_SPRING_K == (4 * F) \div 100
LOGO_SPRING_DAMPING == (88 * F) \div 100
LOGO_REATTACH_RADIUS == 20 * U
LOGO_COLLISION_DIAMETER == 30 * U
LOGO_EJECT_MAX_SPEED == (35 * U) \div 10
LOGO_EJECT_IMPULSE == (22 * U) \div 10
SPAWN_DELAY_MIN == 3000
SPAWN_DELAY_MAX == 20000
BUG_SPAWN_CHANCE == (8 * F) \div 100
BUG_MAX_COUNT == 2

\* ---------------------------------------------------------------------------
\* evolution.js : the controller's tunables and its spawn timer
\* ---------------------------------------------------------------------------
\* The class-field defaults of EvolutionController; bumpMin and bumpMax are
\* DEFAULTS.LOGO_BUMP_THRESHOLD_MIN / MAX, which the settings panel rewrites.
DefaultSettings ==
    [moveSpeed |-> MOVE_SPEED, virusKillChance |-> VIRUS_KILL_CHANCE,
     bumpMin |-> LOGO_BUMP_THRESHOLD_MIN, bumpMax |-> LOGO_BUMP_THRESHOLD_MAX,
     spawnRate |-> 5, bugSpawnChance |-> BUG_SPAWN_CHANCE, bugMaxCount |-> BUG_MAX_COUNT]

\* The clock of the model is `ticks`; start is its value when #startTime was set.
NoTimers == [spawn |-> 0, save |-> FALSE, start |-> 0]
AllTimers == [spawn |-> 0, save |-> TRUE, start |-> 0]

\* 1000 / Math.pow(rate / 5, 1.5), to the nearest unit: 1000 * sqrt(125 / rate^3).
InverseFactor(rate) ==
    (SqrtBetween((4 * 125 * 1000000) \div (rate * rate * rate), 0, 24000) + 1) \div 2

\* #scheduleNextSpawn: the bounds of the delay, in ms.
SpawnDelayMin(rate) == Max(300, Rnd(SPAWN_DELAY_MIN * InverseFactor(rate), 1000))
SpawnDelayMax(rate) == Max(1500, Rnd(SPAWN_DELAY_MAX * InverseFactor(rate), 1000))

\* Math.random() of the delay, as a fraction of F.
DelayDraws == {0, F - 1}

\* A faulty variant of the delay below: min + Math.random() * max.
SpawnDelayPastMax(rate, r) ==
    SpawnDelayMin(rate) + ((SpawnDelayMax(rate) \div 100) * r) \div (F \div 100)

\* min + Math.random() * (max - min), in whole ms.
SpawnDelay(rate, r) ==
    SpawnDelayMin(rate)
      + (((SpawnDelayMax(rate) - SpawnDelayMin(rate)) \div 100) * r) \div (F \div 100)

\* #scheduleNextSpawn(): this.#spawnTimer = setTimeout(..., delay)
ScheduleNextSpawn(t, rate, r) == [t EXCEPT !.spawn = SpawnDelay(rate, r)]

\* ---------------------------------------------------------------------------
\* State
\* ---------------------------------------------------------------------------
VARIABLES
    entities,    \* EvolutionController.#entities: sequence of Entity records
    nextId,      \* identity of the next Entity object constructed
    pending,     \* asynchronous continuations in flight (mounts, transforms)
    cache,       \* iconLoader.js cache: names of the icons already loaded
    totalCounts, \* EvolutionController.#totalCounts
    running,     \* EvolutionController.#running
    timers,      \* #spawnTimer (its delay in ms, 0: none pending), #saveTimer, #startTime
    storage,     \* localStorage['devpage:evolution']: what is stored under the key
    savedFrom,   \* history: #entities when the snapshot in storage was taken
    settings,    \* moveSpeed, virusKillChance, spawnRate, ... (the tunables)
    prefs,       \* localStorage['devpage:settings']: what is stored under the key
    viewport,    \* window.innerWidth / innerHeight
    logo,        \* the LogoController wired in by setLogoController, or NoLogo
    pc,          \* position inside the rAF tick ("idle" between ticks)
    cur,         \* loop indices of the step in progress
    pre,         \* #entities as they were before the last step
    step,        \* what the last step did (kind, indices, draws)
    ticks,       \* number of ticks completed
    kicks,       \* number of drift kicks drawn so far
    dnaCur,      \* DNA operations: the DNA at hand
    dnaCall      \* DNA operations: the last call (op, arguments, result)

simVars == <<entities, nextId, pending, cache, totalCounts, running, timers, storage,
             savedFrom, settings, prefs, viewport, logo, pc, cur, pre, step, ticks, kicks>>
dnaVars == <<dnaCur, dnaCall>>
vars == <<entities, nextId, pending, cache, totalCounts, running, timers, storage,
          savedFrom, settings, prefs, viewport, logo, pc, cur, pre, step, ticks, kicks, dnaCur, dnaCall>>

NoSnapshot == [type |-> "null"]
NoLogo == [ready |-> FALSE]
NoStep == [kind |-> "none"]

\* Bounds of the model.
MaxTicks == 2
MaxKicks == 1
MaxGen == 1

\* ---------------------------------------------------------------------------
\* entity.js : Entity
\* ---------------------------------------------------------------------------
\* constructor; el is "the DOM nodes el / bodyEl exist", removals the number of
\* destroy timers die() has scheduled for the entity.
NewEntity(id, name, x, y, vx, vy, rotation, dna) ==
    [id |-> id, name |-> name, entityKey |-> name,
     x |-> x, y |-> y, vx |-> vx, vy |-> vy, rotation |-> rotation, dna |-> dna,
     alive |-> TRUE, dying |-> FALSE, infected |-> FALSE, divTimer |-> -1, el |-> FALSE,
     removals |-> 0]

\* A faulty variant of the reset below: the shortest interval is not added.
ResetDivisionFromZero(e, r) ==
    LET rate == DnaGet(e.dna, "division_rate")
        min  == Rnd(DIVISION_INTERVAL_MIN * F, rate)
        max  == Rnd(DIVISION_INTERVAL_MAX * F, rate)
    IN  [e EXCEPT !.divTimer = (r * (max - min + 1)) \div F]

\* resetDivision(), for the draw r of Math.random().
ResetDivision(e, r) ==
    LET rate == DnaGet(e.dna, "division_rate")
        min  == Rnd(DIVISION_INTERVAL_MIN * F, rate)
        max  == Rnd(DIVISION_INTERVAL_MAX * F, rate)
    IN  [e EXCEPT !.divTimer = min + (r * (max - min + 1)) \div F]

\* get wantsToDivide
WantsToDivide(e) ==
    e.entityKey = "cell" /\ e.divTimer = 0 /\ e.alive /\ ~e.dying

\* update(), edge bounce: the four tests in order.
Bounce(e, vw, vh) ==
    LET h  == ICON_HALF
        e1 == IF e.x - h <= 0    THEN [e  EXCEPT !.x = h,      !.vx = Abs(e.vx)]   ELSE e
        e2 == IF e1.x + h >= vw  THEN [e1 EXCEPT !.x = vw - h, !.vx = -Abs(e1.vx)] ELSE e1
        e3 == IF e2.y - h <= 0   THEN [e2 EXCEPT !.y = h,      !.vy = Abs(e2.vy)]  ELSE e2
    IN       IF e3.y + h >= vh   THEN [e3 EXCEPT !.y = vh - h, !.vy = -Abs(e3.vy)] ELSE e3

\* update(), chaotic drift, for the draws k = <<r0, r1, r2>> of Math.random().
Drift(e, k) ==
    IF ~RandLess(k[1], DRIFT_CHANCE) THEN e
    ELSE LET vx  == e.vx + Rnd((k[2] - F \div 2) * DRIFT_MAGNITUDE, F)
             vy  == e.vy + Rnd((k[3] - F \div 2) * DRIFT_MAGNITUDE, F)
             spd == Hypot(vx, vy)
             max == Rnd(BASE_SPEED * MAX_SPEED_FACTOR, F)
         IN  IF spd > max
                THEN [e EXCEPT !.vx = Rnd(vx * max, spd), !.vy = Rnd(vy * max, spd)]
                ELSE [e EXCEPT !.vx = vx, !.vy = vy]

\* update(speedMultiplier), speedMultiplier = moveSpeed / MOVE_SPEED.
Update(e, moveSpeed, vw, vh, k) ==
    IF ~e.el \/ ~e.alive \/ e.dying THEN e
    ELSE LET t  == IF e.entityKey = "cell" /\ e.divTimer > 0
                      THEN [e EXCEPT !.divTimer = e.divTimer - 1] ELSE e
             geneKey  == IF e.entityKey = "virus-filled" THEN "hunt_speed" ELSE "speed"
             geneMult == DnaGet(e.dna, geneKey)
             m  == [t EXCEPT !.x = t.x + Rnd(t.vx * moveSpeed * geneMult, MOVE_SPEED * F),
                             !.y = t.y + Rnd(t.vy * moveSpeed * geneMult, MOVE_SPEED * F)]
         IN  Drift(Bounce(m, vw, vh), k)

\* A faulty variant of die() below: the guard is missing.
DieAgain(e) ==
    [e EXCEPT !.dying = TRUE, !.vx = 0, !.vy = 0, !.removals = e.removals + 1]

\* die(): the synchronous part (the removal timer it sets fires in DeathTimeout).
Die(e) ==
    IF e.dying \/ ~e.el \/ ~e.alive THEN e
    ELSE [e EXCEPT !.dying = TRUE, !.vx = 0, !.vy = 0, !.removals = e.removals + 1]

\* destroy()
Destroy(e) == [e EXCEPT !.alive = FALSE, !.el = FALSE]

\* A faulty variant of the guards of infectWith below: the transform guard
\* is not tested.
InfectProceedsUnguarded(e, force) == ~(e.dying \/ ~e.el \/ ~e.alive)

\* infectWith(iconName, color, {force, dna}): whether the call gets past its
\* two guards, and the entity after its synchronous part (up to the await).
InfectProceeds(e, force) ==
    ~(e.dying \/ ~e.el \/ ~e.alive) /\ ~(~force /\ e.infected)
InfectSync(e, iconName, force, withDna, dna) ==
    IF ~InfectProceeds(e, force) THEN e
    ELSE [e EXCEPT !.infected = TRUE, !.entityKey = iconName,
                   !.dna = IF withDna THEN dna ELSE e.dna]

\* ---------------------------------------------------------------------------
\* evolution.js : #checkCollisions, one pair (a, b) = (entities[i], entities[j])
\* ---------------------------------------------------------------------------
\* Math.hypot(b.x - a.x, b.y - a.y), or COLLISION_DIAMETER when either offset
\* alone already reaches the diameter (the pair is then skipped either way).
PairDist(a, b) ==
    IF Abs(b.x - a.x) >= COLLISION_DIAMETER \/ Abs(b.y - a.y) >= COLLISION_DIAMETER
       THEN COLLISION_DIAMETER
       ELSE Hypot(b.x - a.x, b.y - a.y)

\* The pair is not skipped by the two `continue` tests.
Collides(a, b) ==
    /\ a.alive /\ b.alive /\ ~a.dying /\ ~b.dying
    /\ ~(PairDist(a, b) >= COLLISION_DIAMETER \/ PairDist(a, b) = 0)

\* Collision normal (unit vector from a to b), in 1/F.
NormalX(a, b) == Rnd((b.x - a.x) * F, PairDist(a, b))
NormalY(a, b) == Rnd((b.y - a.y) * F, PairDist(a, b))

\* A faulty variant of the impulse below: a bug is a partner like any other.
ImpulseOnBoth(a, b, nx, ny) ==
    LET dot == Rnd((a.vx - b.vx) * nx + (a.vy - b.vy) * ny, F)
    IN  IF dot > 0
           THEN << [a EXCEPT !.vx = a.vx - Rnd(dot * nx, F), !.vy = a.vy - Rnd(dot * ny, F)],
                   [b EXCEPT !.vx = b.vx + Rnd(dot * nx, F), !.vy = b.vy + Rnd(dot * ny, F)] >>
           ELSE <<a, b>>

\* Elastic impulse along the normal: <<a, b>> afterwards.
Impulse(a, b, nx, ny) ==
    LET aIsBug == a.entityKey = "bug"
        bIsBug == b.entityKey = "bug"
        dot    == Rnd((a.vx - b.vx) * nx + (a.vy - b.vy) * ny, F)
        ax     == [a EXCEPT !.vx = a.vx - Rnd(dot * nx, F), !.vy = a.vy - Rnd(dot * ny, F)]
        bx     == [b EXCEPT !.vx = b.vx + Rnd(dot * nx, F), !.vy = b.vy + Rnd(dot * ny, F)]
    IN  IF dot > 0
           THEN IF aIsBug \/ bIsBug
                   THEN IF aIsBug THEN <<ax, b>> ELSE <<a, bx>>
                   ELSE <<ax, bx>>
           ELSE <<a, b>>

\* A faulty variant of the positional correction below: only a is moved, by
\* the whole overlap.
PushOneSided(a, b, nx, ny, dist) ==
    << [a EXCEPT !.x = a.x - Rnd((COLLISION_DIAMETER - dist) * nx, F),
                 !.y = a.y - Rnd((COLLISION_DIAMETER - dist) * ny, F)], b >>

\* Positional correction: half = (diameter - dist) / 2 along the normal.
PushApart(a, b, nx, ny, dist) ==
    << [a EXCEPT !.x = a.x - Rnd((COLLISION_DIAMETER - dist) * nx, 2 * F),
                 !.y = a.y - Rnd((COLLISION_DIAMETER - dist) * ny, 2 * F)],
       [b EXCEPT !.x = b.x + Rnd((COLLISION_DIAMETER - dist) * nx, 2 * F),
                 !.y = b.y + Rnd((COLLISION_DIAMETER - dist) * ny, 2 * F)] >>

\* Visual feedback: <<onHit() called on a, onHit() called on b>>.
Hits(a, b) ==
    LET aIsBug == a.entityKey = "bug"
        bIsBug == b.entityKey = "bug"
    IN  IF ~aIsBug /\ ~bIsBug THEN <<TRUE, TRUE>>
        ELSE IF aIsBug THEN <<TRUE, FALSE>> ELSE <<FALSE, TRUE>>

bugImmune == {"bug", "bacteria"}

\* A faulty variant of the set below: 'bacteria' is left out.
virusImmuneNoBacteria == {"bug", "virus-filled"}

virusImmune == {"bug", "virus-filled", "bacteria"}

\* The continuation an infectWith call on e leaves in flight: it awaits
\* loadIcon.  `was` remembers the entity as the call found it.
FetchOf(e, iconName) ==
    [kind |-> "fetch", id |-> e.id, iconName |-> iconName, hit |-> iconName \in cache,
     was |-> [entityKey |-> e.entityKey, dna |-> e.dna, infected |-> e.infected]]

\* A faulty variant of the bug contact below: the cure is not forced.
CureUnforced(target) ==
    IF target.entityKey = "virus-filled"
       THEN [e     |-> InfectSync(target, "cell", FALSE, FALSE, EmptyDna),
             trans |-> IF InfectProceeds(target, FALSE) THEN {FetchOf(target, "cell")} ELSE {}]
    ELSE IF target.entityKey \notin bugImmune
       THEN [e     |-> InfectSync(target, "virus-filled", FALSE, TRUE, ForVirus(target.dna)),
             trans |-> IF InfectProceeds(target, FALSE)
                          THEN {FetchOf(target, "virus-filled")} ELSE {}]
    ELSE [e |-> target, trans |-> {}]

\* Bug infection / cure of `target` touched by a bug:
\* [e |-> target afterwards, trans |-> continuations started].
BugTouch(target) ==
    IF target.entityKey = "virus-filled"
       THEN [e     |-> InfectSync(target, "cell", TRUE, FALSE, EmptyDna),
             trans |-> IF InfectProceeds(target, TRUE) THEN {FetchOf(target, "cell")} ELSE {}]
    ELSE IF target.entityKey \notin bugImmune
       THEN [e     |-> InfectSync(target, "virus-filled", FALSE, TRUE, ForVirus(target.dna)),
             trans |-> IF InfectProceeds(target, FALSE)
                          THEN {FetchOf(target, "virus-filled")} ELSE {}]
    ELSE [e |-> target, trans |-> {}]

\* #resolveVirusContact, shield check: the attack is blocked.
\* approachAngle and the result of atan2 are in degrees.
ShieldBlocks(target, approachAngle) ==
    LET shieldStrength == DnaGet(target.dna, "shield")
        spd            == Hypot(target.vx, target.vy)
        frontAngle     == Atan2Deg(target.vy, target.vx)
        d0             == approachAngle - frontAngle
        diff           == IF d0 > 180 THEN d0 - 360 ELSE IF d0 < -180 THEN d0 + 360 ELSE d0
    IN  /\ shieldStrength > 0
        /\ spd > U \div 100
        /\ Abs(diff) * F < shieldStrength * 90

\* A faulty variant of the kill chance below: the lethality bonus is left out.
EffectiveKillNoBonus(virus, target, virusKillChance) ==
    Max(0, virusKillChance - DnaGet(target.dna, "resistance"))

\* #resolveVirusContact, resistance check: effectiveKill.
EffectiveKill(virus, target, virusKillChance) ==
    LET resistance  == DnaGet(target.dna, "resistance")
        killChance  == Max(0, virusKillChance - resistance)
        lethalBonus == DnaGet(virus.dna, "lethality")
    IN  Min(F, killChance + lethalBonus)

\* #resolveVirusContact(virus, target, approachAngle), for the draw `roll`:
\* the target afterwards.
ResolveVirusContact(virus, target, approachAngle, virusKillChance, roll) ==
    IF ShieldBlocks(target, approachAngle) THEN target
    ELSE IF RandLess(roll, EffectiveKill(virus, target, virusKillChance))
         THEN Die(target) ELSE target

\* Distance and collision normal of a pair that passes the `continue` tests.
Geometry(a, b) == [dist |-> PairDist(a, b), nx |-> NormalX(a, b), ny |-> NormalY(a, b)]

\* Bug infection / cure for the pair (a, b) after the positional correction:
\* the two entities afterwards and the transforms started.
BugContact(a, b) ==
    IF a.entityKey = "bug"
       THEN [a |-> a, b |-> BugTouch(b).e, trans |-> BugTouch(b).trans]
    ELSE IF b.entityKey = "bug"
       THEN [a |-> BugTouch(a).e, b |-> b, trans |-> BugTouch(a).trans]
    ELSE [a |-> a, b |-> b, trans |-> {}]

\* Virus kill for the pair (a, b) with collision normal (nx, ny): who is
\* attacked ("a", "b" or "none"), from which angle, whether the shield
\* blocked it, and the two entities afterwards.
VirusContact(a, b, nx, ny, virusKillChance, roll) ==
    LET aAttacks == a.entityKey = "virus-filled" /\ b.entityKey \notin virusImmune
        bAttacks == ~aAttacks /\ b.entityKey = "virus-filled" /\ a.entityKey \notin virusImmune
        angleA   == Atan2Deg(-ny, -nx)
        angleB   == Atan2Deg(ny, nx)
    IN  IF aAttacks
           THEN [a |-> a, b |-> ResolveVirusContact(a, b, angleA, virusKillChance, roll),
                 target |-> "b", approachAngle |-> angleA,
                 blocked |-> ShieldBlocks(b, angleA)]
        ELSE IF bAttacks
           THEN [a |-> ResolveVirusContact(b, a, angleB, virusKillChance, roll), b |-> b,
                 target |-> "a", approachAngle |-> angleB,
                 blocked |-> ShieldBlocks(a, angleB)]
        ELSE [a |-> a, b |-> b, target |-> "none", approachAngle |-> 0, blocked |-> FALSE]

\* ---------------------------------------------------------------------------
\* evolution.js : the rAF tick of #startLoop
\*
\* One tick runs to completion without interleaving (JavaScript runs a task to
\* the end); pc records how far it has got, so that the state between two of
\* its steps can be observed:
\*   idle -TickUpdate-> divide -DivideCell*, DivideDone-> logo -LogoUpdate->
\*   collide -CollidePair*, CollideDone-> letters -LetterHit*, TickEnd-> idle
\* Timers, user actions and promise continuations run only at pc = "idle".
\* ---------------------------------------------------------------------------
\* The draws of Math.random() for the two components of a drift kick.
KickDraws == {0, F - 1}

\* for (const entity of this.#entities) entity.update(multiplier)
\* At most one entity (k) draws a drift kick in a tick.
TickUpdate ==
    /\ pc = "idle" /\ running /\ ticks < MaxTicks
    /\ \E k \in 0..Len(entities), r1 \in KickDraws, r2 \in KickDraws :
          /\ k = 0 => (r1 = 0 /\ r2 = 0)
          /\ k > 0 => /\ kicks < MaxKicks
                      /\ entities[k].el /\ entities[k].alive /\ ~entities[k].dying
          /\ entities' = [i \in 1..Len(entities) |->
                            Update(entities[i], settings.moveSpeed, viewport.w, viewport.h,
                                   IF i = k THEN <<0, r1, r2>> ELSE <<F - 1, 0, 0>>)]
          /\ kicks' = IF k > 0 THEN kicks + 1 ELSE kicks
          /\ step' = [kind |-> "update", kicked |-> k]
    /\ pre' = entities
    /\ pc' = "divide"
    /\ cur' = <<1, 1>>
    /\ UNCHANGED <<nextId, pending, cache, totalCounts, running, timers, storage, savedFrom, settings,
                   viewport, logo, ticks, prefs, dnaVars>>

\* divide(): the offspring's config, for the direction dir = <<cos, sin>> of
\* the angle drawn and the DNA reproduce returned.
Divide(e, dir, childDna, vw, vh) ==
    LET h      == ICON_HALF
        offset == Rnd(COLLISION_DIAMETER * 65, 100)
    IN  [name |-> "cell", dna |-> childDna,
         x  |-> Max(h, Min(vw - h, e.x + Rnd(dir[1] * offset, F))),
         y  |-> Max(h, Min(vh - h, e.y + Rnd(dir[2] * offset, F))),
         vx |-> Rnd(dir[1] * BASE_SPEED, F),
         vy |-> Rnd(dir[2] * BASE_SPEED, F)]

\* The draws of Math.random() for resetDivision, and the rotation
\* (Math.random() * 360) the constructor draws when none is given.
IntervalDraws == {0, F - 1}
RotationDraws == {90}

\* mount(), up to its await: the DOM nodes are created.
MountStart(e) == [e EXCEPT !.el = TRUE]
MountOf(origin, e) ==
    [kind |-> "mount", origin |-> origin, ent |-> MountStart(e), hit |-> e.name \in cache]

\* The cells from index c on that want to divide.
ReadyFrom(c) == {i \in c..Len(entities) : WantsToDivide(entities[i])}

\* A faulty variant of the population test below: no cap.
DivisionOpenAlways(n) == TRUE

\* this.#entities.length < DEFAULTS.MAX_POPULATION
DivisionOpen(n) == n < MAX_POPULATION

\* One iteration of the division loop that divides: entities[i] is the next
\* cell that wants to.  resetDivision(); #spawnOffspring(divide()).
DivideCell ==
    /\ pc = "divide"
    /\ DivisionOpen(Len(entities))
    /\ ReadyFrom(cur[1]) # {}
    /\ LET i == CHOOSE x \in ReadyFrom(cur[1]) : \A y \in ReadyFrom(cur[1]) : x <= y
           e == entities[i]
       IN  \E r \in IntervalDraws, dir \in Directions, rot \in RotationDraws,
              childDna \in ReproduceOutcomes(e.dna, MUTATION_RATE, "cell") :
              LET c     == Divide(e, dir, childDna, viewport.w, viewport.h)
                  child == NewEntity(nextId, c.name, c.x, c.y, c.vx, c.vy, rot, c.dna)
              IN  /\ entities' = [entities EXCEPT ![i] = ResetDivision(e, r)]
                  /\ pending' = pending \cup {MountOf("offspring", child)}
                  /\ step' = [kind |-> "divide", i |-> i, parentDna |-> e.dna,
                              child |-> child.id]
                  /\ cur' = <<i + 1, 1>>
    /\ nextId' = nextId + 1
    /\ pre' = entities
    /\ UNCHANGED <<cache, totalCounts, running, timers, storage, savedFrom, settings, viewport, logo,
                   pc, ticks, kicks, prefs, dnaVars>>

\* The division block is over: the cap is reached or no cell is left.
DivideDone ==
    /\ pc = "divide"
    /\ ~(DivisionOpen(Len(entities)) /\ ReadyFrom(cur[1]) # {})
    /\ pc' = "logo"
    /\ UNCHANGED <<entities, nextId, pending, cache, totalCounts, running, timers, storage, savedFrom,
                   settings, viewport, logo, cur, pre, step, ticks, kicks, prefs, dnaVars>>

\* The pairs (i, j), i < j, from the loop position c on, that collide now.
CollidingFrom(c) ==
    {p \in (1..Len(entities)) \X (1..Len(entities)) :
        /\ p[1] < p[2]
        /\ p[1] > c[1] \/ (p[1] = c[1] /\ p[2] >= c[2])
        /\ Collides(entities[p[1]], entities[p[2]])}

\* One iteration of the pair loop of #checkCollisions that resolves a pair:
\* impulse, positional correction, onHit, bug infection / cure, virus kill.
CollidePair ==
    /\ pc = "collide"
    /\ CollidingFrom(cur) # {}
    /\ \E p \in {CHOOSE x \in CollidingFrom(cur) :
                    \A y \in CollidingFrom(cur) : x[1] < y[1] \/ (x[1] = y[1] /\ x[2] <= y[2])} :
       \E g \in {Geometry(entities[p[1]], entities[p[2]])} :
       \E v \in {Impulse(entities[p[1]], entities[p[2]], g.nx, g.ny)} :
       \E q \in {PushApart(v[1], v[2], g.nx, g.ny, g.dist)} :
       \E t \in {BugContact(q[1], q[2])} :
       \E roll \in Rolls :
       \E k \in {VirusContact(t.a, t.b, g.nx, g.ny, settings.virusKillChance, roll)} :
          /\ (k.target = "none" \/ k.blocked) => roll = 0
          /\ entities' = [entities EXCEPT ![p[1]] = k.a, ![p[2]] = k.b]
          /\ pending' = pending \cup t.trans
          /\ step' = [kind |-> "pair", i |-> p[1], j |-> p[2],
                      dist |-> g.dist, nx |-> g.nx, ny |-> g.ny,
                      hit |-> Hits(entities[p[1]], entities[p[2]]),
                      target |-> k.target, approachAngle |-> k.approachAngle,
                      blocked |-> k.blocked, roll |-> roll]
          /\ cur' = <<p[1], p[2] + 1>>
    /\ pre' = entities
    /\ UNCHANGED <<nextId, cache, totalCounts, running, timers, storage, savedFrom, settings, viewport,
                   logo, pc, ticks, kicks, prefs, dnaVars>>

\* #checkCollisions returns: no pair is left.
CollideDone ==
    /\ pc = "collide"
    /\ CollidingFrom(cur) = {}
    /\ pc' = "letters"
    /\ cur' = <<1, 1>>
    /\ UNCHANGED <<entities, nextId, pending, cache, totalCounts, running, timers, storage, savedFrom,
                   settings, viewport, logo, pre, step, ticks, kicks, prefs, dnaVars>>

\* ---------------------------------------------------------------------------
\* logoLetter.js : LogoLetter, logoController.js : LogoController
\* ---------------------------------------------------------------------------
WORD_ICONS == << "letter-s-box", "letter-h-box", "letter-a-box", "letter-d-box",
                 "letter-o-box", "letter-l-box", "letter-l-box", "letter-d",
                 "letter-e", "letter-v" >>
Slots == 1..Len(WORD_ICONS)

\* LOGO_BUMP_THRESHOLD_MIN + Math.floor(Math.random() * (MAX - MIN)), for the
\* draw r; MIN and MAX are the current settings.
ThresholdDraw(r, min, max) == min + ((r * (max - min)) \div F)

\* constructor; slot i of the model is slotIndex i - 1.
NewLetter(i, threshold) ==
    [slot |-> i, x |-> 0, y |-> 0, vx |-> 0, vy |-> 0, ejected |-> FALSE,
     bumpCount |-> 0, totalHits |-> 0, bumpThreshold |-> threshold, mounted |-> FALSE]

\* slotPosition: sx = wordX + (slotIndex - 4.5) * LOGO_LETTER_GAP, sy = wordY.
SlotX(l, wordX) == wordX + ((2 * (l.slot - 1) - 9) * LOGO_LETTER_GAP) \div 2
SlotY(l, wordY) == wordY

\* A faulty variant of the snap below: the letter stays where it is.
SnapToSlotStale(l, wordX, wordY) == l

\* snapToSlot
SnapToSlot(l, wordX, wordY) == [l EXCEPT !.x = SlotX(l, wordX), !.y = SlotY(l, wordY)]

\* The four edge tests of updateEjected, in order.
LetterBounce(l, vw, vh) ==
    LET h  == LOGO_LETTER_HALF
        l1 == IF l.x - h <= 0   THEN [l  EXCEPT !.x = h,      !.vx = Abs(l.vx)]   ELSE l
        l2 == IF l1.x + h >= vw THEN [l1 EXCEPT !.x = vw - h, !.vx = -Abs(l1.vx)] ELSE l1
        l3 == IF l2.y - h <= 0  THEN [l2 EXCEPT !.y = h,      !.vy = Abs(l2.vy)]  ELSE l2
    IN  IF l3.y + h >= vh THEN [l3 EXCEPT !.y = vh - h, !.vy = -Abs(l3.vy)] ELSE l3

\* updateEjected: spring, damping, speed cap, integration, edge bounce.
UpdateEjected(l, wordX, wordY, moveSpeed, vw, vh) ==
    LET vx1 == l.vx + Rnd((SlotX(l, wordX) - l.x) * LOGO_SPRING_K, F)
        vy1 == l.vy + Rnd((SlotY(l, wordY) - l.y) * LOGO_SPRING_K, F)
        vx2 == Rnd(vx1 * LOGO_SPRING_DAMPING, F)
        vy2 == Rnd(vy1 * LOGO_SPRING_DAMPING, F)
        spd == Hypot(vx2, vy2)
        vx3 == IF spd > LOGO_EJECT_MAX_SPEED THEN Rnd(vx2 * LOGO_EJECT_MAX_SPEED, spd) ELSE vx2
        vy3 == IF spd > LOGO_EJECT_MAX_SPEED THEN Rnd(vy2 * LOGO_EJECT_MAX_SPEED, spd) ELSE vy2
    IN  LetterBounce([l EXCEPT !.vx = vx3, !.vy = vy3,
                               !.x = l.x + Rnd(vx3 * moveSpeed, MOVE_SPEED),
                               !.y = l.y + Rnd(vy3 * moveSpeed, MOVE_SPEED)], vw, vh)

\* A faulty variant of isNearSlot below: every letter counts as near.
IsNearAlways(l, wordX, wordY) == TRUE

\* isNearSlot: Math.hypot(x - sx, y - sy) <= LOGO_REATTACH_RADIUS.
IsNearSlot(l, wordX, wordY) ==
    /\ Abs(l.x - SlotX(l, wordX)) <= LOGO_REATTACH_RADIUS
    /\ Abs(l.y - SlotY(l, wordY)) <= LOGO_REATTACH_RADIUS
    /\ Hypot(l.x - SlotX(l, wordX), l.y - SlotY(l, wordY)) <= LOGO_REATTACH_RADIUS

\* onBump: the letter afterwards; ShouldEject is the value it returns.
OnBump(l) == [l EXCEPT !.bumpCount = l.bumpCount + 1, !.totalHits = l.totalHits + 1]

\* A faulty variant of the returned value below: `>=` instead of `>`.
ShouldEjectAtThreshold(l) == ~l.ejected /\ l.bumpCount >= l.bumpThreshold

\* return !this.ejected && this.bumpCount > this.bumpThreshold
ShouldEject(l) == ~l.ejected /\ l.bumpCount > l.bumpThreshold

\* eject(impulseVx, impulseVy)
Eject(l, impulseVx, impulseVy) == [l EXCEPT !.ejected = TRUE, !.vx = impulseVx, !.vy = impulseVy]

\* reattach(), for the draw r of the new threshold.
Reattach(l, r, min, max) ==
    [l EXCEPT !.ejected = FALSE, !.vx = 0, !.vy = 0, !.bumpCount = 0,
              !.bumpThreshold = ThresholdDraw(r, min, max)]

\* A faulty variant of the move below: the right and bottom tests are missing.
MoveWordHalfBounded(g, moveSpeed, vw, vh) ==
    LET halfW == (9 * LOGO_LETTER_GAP) \div 2 + LOGO_LETTER_HALF
        halfH == LOGO_LETTER_HALF
        x0 == g.wordX + Rnd(g.wordVx * moveSpeed, MOVE_SPEED)
        y0 == g.wordY + Rnd(g.wordVy * moveSpeed, MOVE_SPEED)
        a1 == IF x0 - halfW <= 0 THEN <<halfW, Abs(g.wordVx)>> ELSE <<x0, g.wordVx>>
        b1 == IF y0 - halfH <= 0 THEN <<halfH, Abs(g.wordVy)>> ELSE <<y0, g.wordVy>>
    IN  <<a1[1], b1[1], a1[2], b1[2]>>

\* LogoController.update: the word origin after the move and the four edge
\* tests, as <<wordX, wordY, wordVx, wordVy>>.
MoveWord(g, moveSpeed, vw, vh) ==
    LET halfW == (9 * LOGO_LETTER_GAP) \div 2 + LOGO_LETTER_HALF
        halfH == LOGO_LETTER_HALF
        x0 == g.wordX + Rnd(g.wordVx * moveSpeed, MOVE_SPEED)
        y0 == g.wordY + Rnd(g.wordVy * moveSpeed, MOVE_SPEED)
        a1 == IF x0 - halfW <= 0     THEN <<halfW, Abs(g.wordVx)>>       ELSE <<x0, g.wordVx>>
        a2 == IF a1[1] + halfW >= vw THEN <<vw - halfW, -Abs(a1[2])>>    ELSE a1
        b1 == IF y0 - halfH <= 0     THEN <<halfH, Abs(g.wordVy)>>       ELSE <<y0, g.wordVy>>
        b2 == IF b1[1] + halfH >= vh THEN <<vh - halfH, -Abs(b1[2])>>    ELSE b1
    IN  <<a2[1], b2[1], a2[2], b2[2]>>

\* The body of the letter loop of update, for one letter and the draw r.
UpdateLetter(l, wordX, wordY, moveSpeed, vw, vh, r, min, max) ==
    IF l.ejected
       THEN LET f == UpdateEjected(l, wordX, wordY, moveSpeed, vw, vh)
            IN  IF IsNearSlot(f, wordX, wordY)
                   THEN SnapToSlot(Reattach(f, r, min, max), wordX, wordY)
                   ELSE f
       ELSE SnapToSlot(l, wordX, wordY)

\* this.#logo?.update(multiplier)
LogoUpdate ==
    /\ pc = "logo"
    /\ IF logo.ready
          THEN LET w == MoveWord(logo, settings.moveSpeed, viewport.w, viewport.h)
               IN  \E r \in Rolls :
                      /\ (\A i \in Slots : ~logo.letters[i].ejected) => r = 0
                      /\ logo' = [logo EXCEPT
                            !.wordX = w[1], !.wordY = w[2], !.wordVx = w[3], !.wordVy = w[4],
                            !.letters = [i \in Slots |->
                                UpdateLetter(logo.letters[i], w[1], w[2], settings.moveSpeed,
                                             viewport.w, viewport.h, r,
                                             settings.bumpMin, settings.bumpMax)]]
                      /\ step' = [kind |-> "logo",
                                  before |-> logo.letters,
                                  flown  |-> [i \in Slots |->
                                      IF logo.letters[i].ejected
                                         THEN UpdateEjected(logo.letters[i], w[1], w[2],
                                                 settings.moveSpeed, viewport.w, viewport.h)
                                         ELSE logo.letters[i]]]
          ELSE UNCHANGED <<logo, step>>
    /\ pc' = "collide"
    /\ cur' = <<1, 2>>
    /\ UNCHANGED <<entities, nextId, pending, cache, totalCounts, running, timers, storage, savedFrom,
                   settings, viewport, pre, ticks, kicks, prefs, dnaVars>>

\* ---------------------------------------------------------------------------
\* settings.js : SettingsController, the settings it stores and reads back
\* (the gradient's settings and the two label toggles are outside the model)
\* ---------------------------------------------------------------------------
NoPrefs == [type |-> "null"]

\* LogoController.getHitCounts(): each letter's bumpCount, in slot order; the
\* SettingsController holds no LogoController until the logo is wired in.
HitCounts(g) ==
    IF g.ready THEN [type |-> "array", items |-> [i \in Slots |-> g.letters[i].bumpCount]]
    ELSE JsNull

\* #saveState(): the object written under the key, for the tunables s and
\* the logo g.
SavedPrefs(s, g) ==
    JsObj([k \in {"moveSpeed", "spawnRate", "virusKillChance", "bugSpawnChance",
                  "bugMaxCount", "letterHitCounts"} |->
              IF k = "letterHitCounts" THEN HitCounts(g) ELSE JsNum(s[k])])

\* loadSaved(): `if (typeof s[key] === 'number') set(s[key])`, the value
\* staying `unset` otherwise.
PrefNumber(p, key, unset) ==
    IF p.type = "object" /\ key \in DOMAIN p.fields /\ p.fields[key].type = "number"
       THEN p.fields[key].v ELSE unset

\* loadSaved() on a freshly loaded page: the tunables afterwards.
LoadSaved(p) ==
    [moveSpeed       |-> PrefNumber(p, "moveSpeed", DefaultSettings.moveSpeed),
     spawnRate       |-> PrefNumber(p, "spawnRate", DefaultSettings.spawnRate),
     virusKillChance |-> PrefNumber(p, "virusKillChance", DefaultSettings.virusKillChance),
     bugSpawnChance  |-> PrefNumber(p, "bugSpawnChance", DefaultSettings.bugSpawnChance),
     bugMaxCount     |-> PrefNumber(p, "bugMaxCount", DefaultSettings.bugMaxCount),
     bumpMin         |-> PrefNumber(p, "bumpThresholdMin", DefaultSettings.bumpMin),
     bumpMax         |-> PrefNumber(p, "bumpThresholdMax", DefaultSettings.bumpMax)]

\* loadSaved(): #savedLetterHitCounts, kept until the logo is wired in.
SavedHitCounts(p) ==
    IF p.type = "object" /\ "letterHitCounts" \in DOMAIN p.fields
          /\ p.fields["letterHitCounts"].type = "array"
       THEN p.fields["letterHitCounts"] ELSE JsNull

\* The 'evolutionCleared' listener: delete s.letterHitCounts.
WithoutHitCounts(p) ==
    IF p.type = "object" /\ "letterHitCounts" \in DOMAIN p.fields
       THEN JsObj([k \in (DOMAIN p.fields) \ {"letterHitCounts"} |-> p.fields[k]])
       ELSE p

\* checkCollisionsWithEntities: Math.hypot(entity.x - letter.x, ...), or the
\* diameter when either offset alone already reaches it.
LetterDist(e, l) ==
    IF Abs(e.x - l.x) >= LOGO_COLLISION_DIAMETER \/ Abs(e.y - l.y) >= LOGO_COLLISION_DIAMETER
       THEN LOGO_COLLISION_DIAMETER
       ELSE Hypot(e.x - l.x, e.y - l.y)

\* The (entity, letter) pair is not skipped by the three `continue` tests.
HitsLetter(e, l) ==
    /\ e.alive /\ ~e.dying /\ l.mounted
    /\ ~(LetterDist(e, l) >= LOGO_COLLISION_DIAMETER \/ LetterDist(e, l) = 0)

\* A faulty variant of the contact below: the letter is pushed through, the
\* entity is left where it is.
BounceOffLetterNoPush(e, l) ==
    LET dist == LetterDist(e, l)
        nx   == Rnd((e.x - l.x) * F, dist)
        ny   == Rnd((e.y - l.y) * F, dist)
        raw  == (e.vx - l.vx) * nx + (e.vy - l.vy) * ny
        dot  == Rnd(raw, F)
    IN  IF raw < 0
           THEN [e EXCEPT !.vx = e.vx - Rnd(2 * dot * nx, F),
                          !.vy = e.vy - Rnd(2 * dot * ny, F)]
           ELSE e

\* The entity after the reflection and the positional correction.
BounceOffLetter(e, l) ==
    LET dist == LetterDist(e, l)
        nx   == Rnd((e.x - l.x) * F, dist)
        ny   == Rnd((e.y - l.y) * F, dist)
        raw  == (e.vx - l.vx) * nx + (e.vy - l.vy) * ny
        dot  == Rnd(raw, F)
        e1   == IF raw < 0
                   THEN [e EXCEPT !.vx = e.vx - Rnd(2 * dot * nx, F),
                                  !.vy = e.vy - Rnd(2 * dot * ny, F)]
                   ELSE e
    IN  [e1 EXCEPT !.x = e.x + Rnd((LOGO_COLLISION_DIAMETER - dist) * nx, F),
                   !.y = e.y + Rnd((LOGO_COLLISION_DIAMETER - dist) * ny, F)]

\* The letter after onBump and, when that returns true, the ejection away
\* from the entity with the counter reset and a threshold drawn with r.
BumpLetter(e, l, r, min, max) ==
    LET dist == LetterDist(e, l)
        nx   == Rnd((e.x - l.x) * F, dist)
        ny   == Rnd((e.y - l.y) * F, dist)
        b    == OnBump(l)
    IN  IF ShouldEject(b)
           THEN [Eject(b, -Rnd(nx * LOGO_EJECT_IMPULSE, F), -Rnd(ny * LOGO_EJECT_IMPULSE, F))
                    EXCEPT !.bumpCount = 0, !.bumpThreshold = ThresholdDraw(r, min, max)]
           ELSE b

\* The (entity, letter) pairs from the loop position c on that touch now.
TouchingFrom(c) ==
    IF ~logo.ready THEN {}
    ELSE {p \in (1..Len(entities)) \X Slots :
             /\ p[1] > c[1] \/ (p[1] = c[1] /\ p[2] >= c[2])
             /\ HitsLetter(entities[p[1]], logo.letters[p[2]])}

\* One iteration of the loops of checkCollisionsWithEntities that handles a
\* contact.  onBump dispatches 'logoLetterBumped', on which the
\* SettingsController saves its state (the letter's counter just incremented).
LetterHit ==
    /\ pc = "letters"
    /\ \E T \in {TouchingFrom(cur)} :
          /\ T # {}
          /\ \E p \in {CHOOSE x \in T : \A y \in T : x[1] < y[1] \/ (x[1] = y[1] /\ x[2] <= y[2])} :
             \E e \in {entities[p[1]]}, l \in {logo.letters[p[2]]}, r \in Rolls :
                /\ ~ShouldEject(OnBump(l)) => r = 0
                /\ entities' = [entities EXCEPT ![p[1]] = BounceOffLetter(e, l)]
                /\ logo' = [logo EXCEPT !.letters[p[2]] =
                               BumpLetter(e, l, r, settings.bumpMin, settings.bumpMax)]
                /\ prefs' = SavedPrefs(settings, [logo EXCEPT !.letters[p[2]] = OnBump(l)])
                /\ step' = [kind |-> "bump", i |-> p[1], slot |-> p[2], before |-> l]
                /\ cur' = <<p[1], p[2] + 1>>
    /\ pre' = entities
    /\ UNCHANGED <<nextId, pending, cache, totalCounts, running, timers, storage, savedFrom, settings,
                   viewport, pc, ticks, kicks, dnaVars>>

IsAlive(e) == e.alive

\* this.#entities = this.#entities.filter(e => e.alive)
Prune(ents) == IF \E i \in 1..Len(ents) : ~ents[i].alive THEN SelectSeq(ents, IsAlive) ELSE ents

\* The letter loops are over; prune the dead; requestAnimationFrame(tick).
TickEnd ==
    /\ pc = "letters"
    /\ TouchingFrom(cur) = {}
    /\ entities' = Prune(entities)
    /\ pre' = entities
    /\ step' = [kind |-> "prune"]
    /\ pc' = "idle"
    /\ cur' = <<1, 1>>
    /\ ticks' = ticks + 1
    /\ UNCHANGED <<nextId, pending, cache, totalCounts, running, timers, storage, savedFrom, settings,
                   viewport, logo, kicks, prefs, dnaVars>>

\* ---------------------------------------------------------------------------
\* Timers and promise continuations (between ticks)
\* ---------------------------------------------------------------------------
IconNames == {"cell", "bug", "virus-filled", "bacteria"}

\* #incrementTotal(name)
IncrementTotal(t, name) == [t EXCEPT ![name] = t[name] + 1]

\* loadIcon resolves or rejects; an icon that was cached when the call was
\* made resolves.
LoadOutcomes(p) == IF p.hit THEN {TRUE} ELSE BOOLEAN

\* Index of the entity with identity id in the collection, 0 when absent.
IndexOf(id) ==
    IF \E i \in 1..Len(entities) : entities[i].id = id
       THEN CHOOSE i \in 1..Len(entities) : entities[i].id = id
       ELSE 0

\* mount() resumes after `await loadIcon`, then its caller resumes
\* (#spawnOffspring, #spawnEntity, spawnNamed, spawnNamedWithDna): on success
\* the entity is appended, on failure it is dropped.  #spawnOffspring and
\* #spawnEntity count the entity now, the manual spawns counted it before the
\* mount.  After #spawnEntity the timer callback arms the next spawn timer.
MountDone ==
    /\ pc = "idle"
    /\ \E p \in pending, ok \in BOOLEAN, r \in IntervalDraws, d \in DelayDraws :
          /\ p.kind = "mount"
          /\ ok \in LoadOutcomes(p)
          /\ ~(ok /\ p.ent.entityKey = "cell") => r = 0
          /\ p.origin # "timer" => d = 0
          /\ pending' = pending \ {p}
          /\ IF ok
                THEN /\ entities' = Append(entities,
                            IF p.ent.entityKey = "cell" THEN ResetDivision(p.ent, r) ELSE p.ent)
                                /\ totalCounts' = IF p.origin = "manual" THEN totalCounts
                                       ELSE IF p.origin = "restore" /\ ~p.build THEN totalCounts
                                       ELSE IncrementTotal(totalCounts, p.ent.name)
                     /\ cache' = cache \cup {p.ent.name}
                ELSE UNCHANGED <<entities, totalCounts, cache>>
          /\ timers' = IF p.origin = "timer"
                          THEN ScheduleNextSpawn(timers, settings.spawnRate, d)
                          ELSE timers
          /\ step' = [kind |-> "mount", id |-> p.ent.id, ok |-> ok, origin |-> p.origin]
    /\ pre' = entities
    /\ UNCHANGED <<nextId, running, storage, savedFrom, settings, viewport, logo, pc, cur,
                   ticks, kicks, prefs, dnaVars>>

\* infectWith resumes after `await loadIcon(iconName)`: on rejection the guard
\* and the form are rolled back; otherwise the 300 ms timer is started unless
\* the entity is gone.
TransformFetched ==
    /\ pc = "idle"
    /\ \E p \in pending, ok \in BOOLEAN :
          /\ p.kind = "fetch"
          /\ ok \in LoadOutcomes(p)
          /\ LET i    == IndexOf(p.id)
                 gone == IF i = 0 THEN TRUE ELSE ~entities[i].el \/ ~entities[i].alive
             IN  /\ entities' = IF ~ok /\ i # 0
                                   THEN [entities EXCEPT ![i].infected = FALSE,
                                                         ![i].entityKey = entities[i].name]
                                   ELSE entities
                 /\ pending' = IF ok /\ ~gone
                                  THEN (pending \ {p}) \cup
                                       {[kind |-> "swap", id |-> p.id, iconName |-> p.iconName]}
                                  ELSE pending \ {p}
          /\ cache' = IF ok THEN cache \cup {p.iconName} ELSE cache
          /\ step' = [kind |-> "fetched", id |-> p.id, ok |-> ok]
    /\ pre' = entities
    /\ UNCHANGED <<nextId, totalCounts, running, timers, storage, savedFrom, settings, viewport, logo,
                   pc, cur, ticks, kicks, prefs, dnaVars>>

\* infectWith resumes after the 300 ms timer: the icon is swapped and the
\* division timer re-initialised, unless the entity is gone.
TransformSwap ==
    /\ pc = "idle"
    /\ \E p \in pending, r \in IntervalDraws :
          /\ p.kind = "swap"
          /\ LET i    == IndexOf(p.id)
                 gone == IF i = 0 THEN TRUE ELSE ~entities[i].el \/ ~entities[i].alive
             IN  /\ ~(~gone /\ p.iconName = "cell") => r = 0
                 /\ entities' = IF gone THEN entities
                                ELSE IF p.iconName = "cell"
                                   THEN [entities EXCEPT ![i] = ResetDivision(entities[i], r)]
                                   ELSE [entities EXCEPT ![i].divTimer = -1]
          /\ pending' = pending \ {p}
          /\ step' = [kind |-> "swap", id |-> p.id]
    /\ pre' = entities
    /\ UNCHANGED <<nextId, cache, totalCounts, running, timers, storage, savedFrom, settings, viewport,
                   logo, pc, cur, ticks, kicks, prefs, dnaVars>>

\* A faulty variant of the timer below: it fires in the middle of a tick.
DeathTimeoutMidTick ==
    /\ \E i \in 1..Len(entities) :
          /\ entities[i].dying /\ entities[i].alive
          /\ entities' = [entities EXCEPT ![i] = Destroy(entities[i])]
          /\ step' = [kind |-> "destroy", i |-> i]
    /\ pre' = entities
    /\ UNCHANGED <<nextId, pending, cache, totalCounts, running, timers, storage, savedFrom, settings,
                   viewport, logo, pc, cur, ticks, kicks, prefs, dnaVars>>

\* die()'s timer setTimeout(() => this.destroy(), KILL_DEATH_DURATION) fires.
DeathTimeout ==
    /\ pc = "idle"
    /\ \E i \in 1..Len(entities) :
          /\ entities[i].dying /\ entities[i].alive
          /\ entities' = [entities EXCEPT ![i] = Destroy(entities[i])]
          /\ step' = [kind |-> "destroy", i |-> i]
    /\ pre' = entities
    /\ UNCHANGED <<nextId, pending, cache, totalCounts, running, timers, storage, savedFrom, settings,
                   viewport, logo, pc, cur, ticks, kicks, prefs, dnaVars>>

\* A call of the public method die() on an entity of the collection.
DieCalled ==
    /\ pc = "idle"
    /\ \E i \in 1..Len(entities) :
          /\ entities' = [entities EXCEPT ![i] = Die(entities[i])]
          /\ step' = [kind |-> "die", i |-> i, before |-> entities[i]]
    /\ pre' = entities
    /\ UNCHANGED <<nextId, pending, cache, totalCounts, running, timers, storage, savedFrom,
                   settings, viewport, logo, pc, cur, ticks, kicks, prefs, dnaVars>>

\* Bound of the model: calls of infectWith are made while fewer than
\* MaxInFlight continuations are in flight.
MaxInFlight == 2

\* A call of infectWith(iconName, color, {force, dna}) on an entity at hand,
\* up to its await; the dna option, when given, is DNA.forVirus of its own.
InfectCalled ==
    /\ pc = "idle" /\ Cardinality(pending) < MaxInFlight
    /\ \E i \in 1..Len(entities), iconName \in {"virus-filled", "cell"},
          force \in BOOLEAN, withDna \in BOOLEAN :
          \E e \in {entities[i]} :
             /\ entities' = [entities EXCEPT
                               ![i] = InfectSync(e, iconName, force, withDna, ForVirus(e.dna))]
             /\ pending' = pending \cup
                              (IF InfectProceeds(e, force) THEN {FetchOf(e, iconName)} ELSE {})
             /\ step' = [kind |-> "infect", i |-> i, force |-> force, before |-> e]
    /\ pre' = entities
    /\ UNCHANGED <<nextId, cache, totalCounts, running, timers, storage, savedFrom,
                   settings, viewport, logo, pc, cur, ticks, kicks, prefs, dnaVars>>

\* ---------------------------------------------------------------------------
\* evolution.js : the spawn timer, manual spawns, the setters, stop(), clear()
\* ---------------------------------------------------------------------------
\* Bound of the model: spawns are made while nextId <= MaxSpawnId.
MaxSpawnId == 4

\* this.#entities.filter(e => e.entityKey === key).length
FormCount(ents, key) == Cardinality({i \in 1..Len(ents) : ents[i].entityKey = key})

\* A faulty variant of the bug cap below: `<=` instead of `<`.
BugSlotOpenAtCap(ents, max) == FormCount(ents, "bug") <= max

\* liveBugs < this.#bugMaxCount
BugSlotOpen(ents, max) == FormCount(ents, "bug") < max

\* A faulty variant of the minimum-cell test below: a cell is always wanted.
CellWantedAlways(ents) == TRUE

\* liveCells < DEFAULTS.MIN_CELL_COUNT
CellWanted(ents) == FormCount(ents, "cell") < MIN_CELL_COUNT

\* #spawnEntity: the icon it decides to spawn for the rarity draw roll, "none"
\* when it returns without spawning.
SpawnChoice(ents, s, roll) ==
    IF RandLess(roll, s.bugSpawnChance) /\ BugSlotOpen(ents, s.bugMaxCount) THEN "bug"
    ELSE IF CellWanted(ents) THEN "cell"
    ELSE "none"

\* The random positions and headings the model draws for a spawned entity.
SpawnSpots == { <<200 * U, 75 * U>> }
SpawnHeadings == { <<0, -F>> }

\* new Entity({name, x, y, vx, vy}) as the spawns construct it.
Spawned(id, name, spot, heading, dna) ==
    NewEntity(id, name, spot[1], spot[2], Rnd(heading[1] * BASE_SPEED, F),
              Rnd(heading[2] * BASE_SPEED, F), 0, dna)

\* The spawn timer fires: #spawnEntity runs up to `await entity.mount`; when
\* it returns without spawning, the callback arms the next timer at once.
SpawnEntity ==
    /\ pc = "idle" /\ timers.spawn # 0 /\ nextId <= MaxSpawnId
    /\ \E roll \in Rolls, spot \in SpawnSpots, heading \in SpawnHeadings, d \in DelayDraws :
          \E name \in {SpawnChoice(entities, settings, roll)} :
             /\ step' = [kind |-> "spawn", name |-> name, delay |-> timers.spawn,
                         bugs |-> FormCount(entities, "bug"),
                         liveCells |-> Cardinality({i \in 1..Len(entities) :
                                          /\ entities[i].entityKey = "cell"
                                          /\ entities[i].alive /\ ~entities[i].dying})]
             /\ IF name = "none"
                   THEN /\ timers' = ScheduleNextSpawn(timers, settings.spawnRate, d)
                        /\ UNCHANGED <<pending, nextId>>
                   ELSE /\ d = 0
                        /\ timers' = [timers EXCEPT !.spawn = 0]
                        /\ pending' = pending \cup
                              {MountOf("timer", Spawned(nextId, name, spot, heading, EmptyDna))}
                        /\ nextId' = nextId + 1
    /\ pre' = entities
    /\ UNCHANGED <<entities, cache, totalCounts, running, storage, savedFrom, settings,
                   viewport, logo, pc, cur, ticks, kicks, prefs, dnaVars>>

\* The gene names the spawn dialog passes to spawnNamedWithDna.
SeedLists == { {}, {"shield", "lethality", "wings"} }

\* spawnNamed(iconName) and spawnNamedWithDna(iconName, geneNames), up to
\* `await entity.mount`: the total is incremented before the mount.
\* spawnNamed is the case of no gene names.
SpawnNamed ==
    /\ pc = "idle" /\ nextId <= MaxSpawnId
    /\ \E name \in {"cell", "bug"}, spot \in SpawnSpots, heading \in SpawnHeadings,
          geneNames \in SeedLists :
          /\ totalCounts' = IncrementTotal(totalCounts, name)
          /\ pending' = pending \cup
                {MountOf("manual", Spawned(nextId, name, spot, heading, WithGenes(geneNames)))}
          /\ step' = [kind |-> "spawnNamed", name |-> name, geneNames |-> geneNames,
                      id |-> nextId]
    /\ nextId' = nextId + 1
    /\ pre' = entities
    /\ UNCHANGED <<entities, cache, running, timers, storage, savedFrom, settings,
                   viewport, logo, pc, cur, ticks, kicks, prefs, dnaVars>>

\* The spawn-rate slider is moved: setSpawnRate(rate), then the
\* SettingsController saves its state.
SpawnRates == {1, 5, 10}
SetSpawnRate ==
    /\ pc = "idle"
    /\ \E rate \in SpawnRates \ {settings.spawnRate} :
          /\ settings' = [settings EXCEPT !.spawnRate = rate]
          /\ prefs' = SavedPrefs([settings EXCEPT !.spawnRate = rate], logo)
          /\ step' = [kind |-> "setSpawnRate", rate |-> rate]
    /\ pre' = entities
    /\ UNCHANGED <<entities, nextId, pending, cache, totalCounts, running, timers, storage,
                   savedFrom, viewport, logo, pc, cur, ticks, kicks, dnaVars>>

\* stop(): the loop flag is cleared, the three timers are cancelled, every
\* entity is destroyed and the collection emptied.  Calls that are awaiting
\* an icon are not touched.
Stop ==
    /\ pc = "idle"
    /\ running' = FALSE
    /\ timers' = [timers EXCEPT !.spawn = 0, !.save = FALSE]
    /\ entities' = <<>>
    /\ step' = [kind |-> "stop", destroyed |-> [i \in 1..Len(entities) |-> Destroy(entities[i])]]
    /\ pre' = entities
    /\ UNCHANGED <<nextId, pending, cache, totalCounts, storage, savedFrom, settings,
                   viewport, logo, pc, cur, ticks, kicks, prefs, dnaVars>>

\* A faulty variant of resetCounters below: the counters are left alone.
ResetCountersNone(g) == g

\* LogoController.resetCounters(): every letter's cycle bumpCount back to 0.
ResetCounters(g) ==
    [g EXCEPT !.letters = [i \in Slots |-> [g.letters[i] EXCEPT !.bumpCount = 0]]]

\* LogoController.resetThresholds(): a new threshold per letter; the model
\* draws r1 for the first letter and r2 for the others.
ResetThresholds(g, r1, r2, min, max) ==
    [g EXCEPT !.letters = [i \in Slots |->
        [g.letters[i] EXCEPT !.bumpThreshold =
            ThresholdDraw(IF i = 1 THEN r1 ELSE r2, min, max)]]]

\* clear(): every entity destroyed, the collection, the totals and the clock
\* reset, the logo's counters and thresholds reset, the snapshot removed,
\* 'evolutionCleared' dispatched (on which the SettingsController drops the
\* stored hit counts).  Timers and the loop are not touched.
Clear ==
    /\ pc = "idle"
    /\ entities' = <<>>
    /\ timers' = [timers EXCEPT !.start = ticks]
    /\ totalCounts' = [k \in IconNames |-> 0]
    /\ IF logo.ready
          THEN \E r1 \in Rolls, r2 \in Rolls :
                  logo' = ResetThresholds(ResetCounters(logo), r1, r2,
                                          settings.bumpMin, settings.bumpMax)
          ELSE logo' = logo
    /\ storage' = NoSnapshot /\ savedFrom' = <<>>
    /\ step' = [kind |-> "clear", event |-> "evolutionCleared",
                destroyed |-> [i \in 1..Len(entities) |-> Destroy(entities[i])],
                hadSnapshot |-> storage.type = "object"]
    /\ prefs' = WithoutHitCounts(prefs)
    /\ pre' = entities
    /\ UNCHANGED <<nextId, pending, cache, running, settings, viewport, pc, cur, ticks,
                   kicks, dnaVars>>

\* ---------------------------------------------------------------------------
\* evolution.js : #saveState, #restoreState, init; main.js : boot sequence
\* ---------------------------------------------------------------------------
IsLive(e) == e.alive /\ ~e.dying

\* A faulty variant of the snapshot entry below: the form the entity was
\* created with is saved instead of its current form.
SnapshotEntryByName(e) ==
    [type |-> "object", name |-> e.name, x |-> e.x, y |-> e.y, vx |-> e.vx, vy |-> e.vy,
     rotation |-> e.rotation, dna |-> Serialise(e.dna)]

\* One entry of snapshot.entities.  JSON.stringify / JSON.parse keep finite
\* numbers, strings and the shape of objects and arrays.
SnapshotEntry(e) ==
    [type |-> "object", name |-> e.entityKey, x |-> e.x, y |-> e.y, vx |-> e.vx, vy |-> e.vy,
     rotation |-> e.rotation, dna |-> Serialise(e.dna)]

\* LogoController.serialise(): bumpThreshold and totalHits are not persisted.
SerialiseLetter(l) ==
    [bumpCount |-> l.bumpCount, ejected |-> l.ejected,
     x |-> l.x, y |-> l.y, vx |-> l.vx, vy |-> l.vy]
SerialiseLogo(g) ==
    IF ~g.ready THEN [type |-> "null"]
    ELSE [type |-> "object", wordX |-> g.wordX, wordY |-> g.wordY,
          wordVx |-> g.wordVx, wordVy |-> g.wordVy,
          letters |-> [i \in Slots |-> SerialiseLetter(g.letters[i])]]

\* The snapshot #saveState writes; startTime is the controller's #startTime.
Snapshot(ents, g, totals, startTime) ==
    [type |-> "object",
     startTime |-> JsNum(startTime),
     entities |-> [i \in 1..Len(SelectSeq(ents, IsLive)) |->
                      SnapshotEntry(SelectSeq(ents, IsLive)[i])],
     logo |-> SerialiseLogo(g),
     totalCounts |-> totals]

\* The 2 s interval timer: #saveState().  setItem may throw (quota); the
\* exception is swallowed and the stored snapshot stays.
SaveState ==
    /\ pc = "idle" /\ timers.save
    /\ \E ok \in BOOLEAN :
          /\ storage' = IF ok THEN Snapshot(entities, logo, totalCounts, timers.start) ELSE storage
          /\ savedFrom' = IF ok THEN entities ELSE savedFrom
          /\ step' = [kind |-> "save", ok |-> ok]
    /\ pre' = entities
    /\ UNCHANGED <<entities, nextId, pending, cache, totalCounts, running, timers, settings,
                   viewport, logo, pc, cur, ticks, kicks, prefs, dnaVars>>

\* The entity #restoreState constructs from snapshot entry s.
RestoredEntity(s, id) ==
    NewEntity(id, s.name, s.x, s.y, s.vx, s.vy, s.rotation, Deserialise(s.dna))

\* getCounts(): live entities per form.
GetCounts(ents) ==
    [k \in IconNames |-> Cardinality({i \in 1..Len(ents) : IsLive(ents[i]) /\ ents[i].entityKey = k})]

\* The totals after #restoreState: the saved totals when there are any, else
\* one per restored entity; then raised to the restored population.
RestoredTotals(saved, ents) ==
    LET zero  == [k \in IconNames |-> 0]
        named == [k \in IconNames |-> Cardinality({i \in 1..Len(ents) : ents[i].name = k})]
        base  == IF \E k \in IconNames : saved.totalCounts[k] # 0
                    THEN saved.totalCounts ELSE named
    IN  IF Len(saved.entities) = 0 THEN base
        ELSE [k \in IconNames |-> Max(base[k], GetCounts(ents)[k])]

\* The orders in which the mounts of the indices in S can complete.
Orders(S) ==
    {f \in [1..Cardinality(S) -> S] : \A i, j \in 1..Cardinality(S) : f[i] = f[j] => i = j}

\* What JSON.parse(raw) gives #restoreState to work on: a snapshot object, or
\* nothing (the key is absent, the text does not parse, or it parses to
\* something that is not an object).
Parsed(stored) == stored.type = "object"

\* saved.totalCounts has keys (the model keeps absent keys as 0).
HasTotals(saved) == \E k \in IconNames : saved.totalCounts[k] # 0

\* An entry of saved.entities on which `s.name` throws: null.
Throws(saved) == \E i \in 1..Len(saved.entities) : saved.entities[i].type = "null"

\* The mounts #restoreState has started and that are still awaited when the
\* rejection of Promise.all ends it: one per entry with a known icon; build is
\* buildTotalsFromEntities.
RestoreMounts(saved) ==
    {[kind |-> "mount", origin |-> "restore", hit |-> FALSE, build |-> ~HasTotals(saved),
      ent |-> MountStart(RestoredEntity(saved.entities[i], i))] :
        i \in {j \in 1..Len(saved.entities) :
                  /\ saved.entities[j].type = "object"
                  /\ saved.entities[j].name \in IconNames}}

\* #startTime after init(): the saved one when it is a number, else `now`.
RestoredStart(stored, now) ==
    IF Parsed(stored) /\ stored.startTime.type = "number" THEN stored.startTime.v ELSE now

\* #savedLogoState after init(): saved.logo when it is an object.
SavedLogoState(stored) ==
    IF Parsed(stored) /\ stored.logo.type = "object" THEN stored.logo ELSE [type |-> "null"]

\* The page is reloaded: main.js runs settings.loadSaved(), then a fresh
\* controller runs init() with the tunables loaded.  The old page's
\* objects and continuations are gone with it (identities start again at 1)
\* and the icon cache starts cold; each mount of #restoreState resolves or
\* rejects (the set `loaded` resolves) and the entities are appended in the
\* order their mounts complete.  When an entry throws, Promise.all rejects at
\* once: the catch block ends #restoreState with what was assigned so far, and
\* the mounts already started stay in flight.
Reload ==
    \E armed \in {{ScheduleNextSpawn([AllTimers EXCEPT !.start = RestoredStart(storage, ticks)],
                                     LoadSaved(prefs).spawnRate, d) : d \in DelayDraws}} :
    /\ pc = "idle"
    /\ settings' = LoadSaved(prefs)
    /\ IF Parsed(storage) /\ ~Throws(storage)
          THEN \E loaded \in SUBSET (1..Len(storage.entities)), r \in IntervalDraws :
                  \E f \in Orders(loaded) :
                     LET ents == [i \in 1..Cardinality(loaded) |->
                                    LET e == MountStart(RestoredEntity(storage.entities[f[i]], i))
                                    IN  IF e.entityKey = "cell" THEN ResetDivision(e, r) ELSE e]
                     IN  /\ (\A i \in loaded : storage.entities[i].name # "cell") => r = 0
                         /\ entities' = ents
                         /\ totalCounts' = RestoredTotals(storage, ents)
                         /\ cache' = {storage.entities[i].name : i \in loaded}
                         /\ nextId' = Len(storage.entities) + 1
                         /\ step' = [kind |-> "reload", found |-> storage,
                                     allLoaded |-> loaded = 1..Len(storage.entities)]
                         /\ pending' = {[kind |-> "logo", saved |-> SavedLogoState(storage),
                                          counts |-> SavedHitCounts(prefs)]}
          ELSE /\ entities' = <<>>
               /\ totalCounts' = IF Parsed(storage) /\ HasTotals(storage)
                                    THEN storage.totalCounts ELSE [k \in IconNames |-> 0]
               /\ cache' = {}
               /\ nextId' = IF Parsed(storage) THEN Len(storage.entities) + 1 ELSE 1
               /\ step' = [kind |-> "reload", found |-> storage,
                           allLoaded |-> ~Parsed(storage)]
               /\ pending' = {[kind |-> "logo", saved |-> SavedLogoState(storage),
                                          counts |-> SavedHitCounts(prefs)]}
                                \cup (IF Parsed(storage) THEN RestoreMounts(storage) ELSE {})
    /\ logo' = NoLogo
    /\ running' = TRUE /\ timers' \in armed
    /\ pre' = entities
    /\ UNCHANGED <<storage, savedFrom, viewport, pc, cur, ticks, kicks, prefs, dnaVars>>

\* LogoController.init resumes after its icon loads, then main.js wires the
\* controller in: #initFresh or #restoreFromSnapshot, then #mountLetters
\* (the letters in `failed` could not load their icon), and into the
\* SettingsController, which applies the hit counts loadSaved() had kept.
SetHitCounts(g, counts) ==
    IF counts.type # "array" THEN g
    ELSE [g EXCEPT !.letters = [i \in Slots |->
             [g.letters[i] EXCEPT !.bumpCount = counts.items[i]]]]
FreshLogo(dir, r, vw, vh, min, max) ==
    [ready |-> TRUE, wordX |-> vw \div 2, wordY |-> vh \div 2,
     wordVx |-> Rnd(dir[1] * LOGO_WORD_BASE_SPEED, F),
     wordVy |-> Rnd(dir[2] * LOGO_WORD_BASE_SPEED, F),
     letters |-> [i \in Slots |-> NewLetter(i, ThresholdDraw(r, min, max))]]
RestoredLogo(state, r, min, max) ==
    [ready |-> TRUE, wordX |-> state.wordX, wordY |-> state.wordY,
     wordVx |-> state.wordVx, wordVy |-> state.wordVy,
     letters |-> [i \in Slots |->
         [NewLetter(i, ThresholdDraw(r, min, max)) EXCEPT
             !.bumpCount = state.letters[i].bumpCount,
             !.ejected = state.letters[i].ejected]]]
MountLetter(l, saved, wordX, wordY) ==
    IF saved.type = "object"
       THEN IF saved.letters[l.slot].ejected
               THEN [l EXCEPT !.mounted = TRUE,
                              !.x = saved.letters[l.slot].x, !.y = saved.letters[l.slot].y,
                              !.vx = saved.letters[l.slot].vx, !.vy = saved.letters[l.slot].vy]
               ELSE [SnapToSlot(l, wordX, wordY) EXCEPT !.mounted = TRUE]
       ELSE [SnapToSlot(l, wordX, wordY) EXCEPT !.mounted = TRUE]

FailedLetters == {{}, {Len(WORD_ICONS)}}

LogoInit ==
    /\ pc = "idle"
    /\ \E p \in pending, dir \in Directions, r \in Rolls, failed \in FailedLetters :
          /\ p.kind = "logo"
          /\ p.saved.type = "object" => dir = <<F, 0>>
          /\ LET g == IF p.saved.type = "object"
                         THEN RestoredLogo(p.saved, r, settings.bumpMin, settings.bumpMax)
                         ELSE FreshLogo(dir, r, viewport.w, viewport.h,
                                        settings.bumpMin, settings.bumpMax)
             IN  logo' = SetHitCounts(
                            [g EXCEPT !.letters = [i \in Slots |->
                                 IF i \in failed THEN g.letters[i]
                                 ELSE MountLetter(g.letters[i], p.saved, g.wordX, g.wordY)]],
                            p.counts)
          /\ pending' = pending \ {p}
    /\ step' = [kind |-> "logoInit"]
    /\ pre' = entities
    /\ UNCHANGED <<entities, nextId, cache, totalCounts, running, timers, storage, savedFrom,
                   settings, viewport, pc, cur, ticks, kicks, prefs, dnaVars>>

\* The window is resized: innerWidth / innerHeight change.
ViewportSizes ==
    {[w |-> 420 * U, h |-> 150 * U], [w |-> 360 * U, h |-> 150 * U], [w |-> 320 * U, h |-> 150 * U]}
Resize ==
    /\ pc = "idle"
    /\ \E v \in ViewportSizes :
          /\ v # viewport
          /\ viewport' = v
    /\ step' = [kind |-> "resize"]
    /\ pre' = entities
    /\ UNCHANGED <<entities, nextId, pending, cache, totalCounts, running, timers, storage,
                   savedFrom, settings, logo, pc, cur, ticks, kicks, prefs, dnaVars>>

\* The threshold range of the settings panel: the values the model enters.
ThresholdValues == {1, 3}

\* A value is entered in thresholdMinInput or thresholdMaxInput: the range is
\* rewritten and kept ordered, every letter draws a new threshold, and the
\* SettingsController saves its state.
ThresholdInput ==
    /\ pc = "idle"
    /\ \E which \in {"min", "max"}, val \in ThresholdValues, r1 \in Rolls, r2 \in Rolls :
          \E s2 \in {IF which = "min"
                        THEN [settings EXCEPT !.bumpMin = val,
                                              !.bumpMax = Max(val, settings.bumpMax)]
                        ELSE [settings EXCEPT !.bumpMax = val,
                                              !.bumpMin = Min(val, settings.bumpMin)]} :
          \E g2 \in {IF logo.ready
                        THEN ResetThresholds(logo, r1, r2, s2.bumpMin, s2.bumpMax)
                        ELSE logo} :
             /\ ~logo.ready => (r1 = 0 /\ r2 = 0)
             /\ settings' = s2
             /\ logo' = g2
             /\ prefs' = SavedPrefs(s2, g2)
             /\ step' = [kind |-> "thresholdInput", which |-> which, val |-> val]
    /\ pre' = entities
    /\ UNCHANGED <<entities, nextId, pending, cache, totalCounts, running, timers, storage,
                   savedFrom, viewport, pc, cur, ticks, kicks, dnaVars>>

\* ---------------------------------------------------------------------------
\* Specification of the simulation: two entities about to meet
\* ---------------------------------------------------------------------------
\* A mounted entity of one of the kinds the simulation produces.
\*   cell        a cell part-way through its division countdown
\*   shielded    a cell with the shield gene at its maximum
\*   resistant   a cell with the resistance gene at its maximum
\*   ripe        a cell whose countdown ends with the next update
\*   virus       a 'virus-filled' spawned or restored under that name
\*   turned      a cell a bug turned into 'virus-filled' (guard set)
\*   turning     the same, its transform still waiting for the icon
\*   bug, bacteria
Kinds == {"cell", "shielded", "resistant", "ripe", "virus", "turned", "turning",
          "bug", "bacteria"}
KindName(k) ==
    CASE k \in {"cell", "shielded", "resistant", "ripe", "turned", "turning"} -> "cell"
      [] k = "virus" -> "virus-filled"
      [] OTHER -> k
KindDna(k) ==
    CASE k = "shielded"  -> [g \in {"shield"} |-> GENE_DEFS[g].max]
      [] k = "resistant" -> [g \in {"resistance"} |-> GENE_DEFS[g].max]
      [] k \in {"turned", "turning"}
                         -> ForVirus([g \in {"resistance"} |-> GENE_DEFS[g].max])
      [] OTHER -> EmptyDna
MakeEntity(k, id, x, y, vx, vy) ==
    [NewEntity(id, KindName(k), x, y, vx, vy, 0, KindDna(k)) EXCEPT
        !.el = TRUE,
        !.entityKey = IF k \in {"turned", "turning"} THEN "virus-filled" ELSE KindName(k),
        !.infected = (k \in {"turned", "turning"}),
        !.divTimer = IF k = "ripe" THEN 1
                     ELSE IF k = "turned" THEN -1
                     ELSE IF KindName(k) = "cell" THEN DIVISION_INTERVAL_MIN
                     ELSE -1]

\* The transforms in flight for a collection built from the kinds ks.
TurningOf(ks) ==
    {[kind |-> "fetch", id |-> i, iconName |-> "virus-filled", hit |-> TRUE] :
        i \in {j \in 1..Len(ks) : ks[j] = "turning"}}

\* Where the second entity is relative to the first, and how both move:
\* <<dx, dy, first vx, first vy, second vx, second vy>>.
Meetings ==
    { <<2450, 0, BASE_SPEED, 0, -BASE_SPEED, 0>>,                       \* head-on
      <<2420, 0, BASE_SPEED, 0, 30, 0>>,                                \* first catches up
      <<1470, 1960, 48, 64, -48, -64>>,                                 \* head-on, oblique
      <<2300, 0, -30, 0, 30, 0>> }                                      \* overlapping, parting

FirstKinds == {"cell", "shielded", "virus", "turning", "bug"}
SecondKinds == {"cell", "shielded", "resistant", "virus", "turned", "turning", "bug", "bacteria"}

\* The tunables of the scenarios: the defaults, with the threshold range
\* moved down to 1..3 in the settings panel.
SceneSettings == [DefaultSettings EXCEPT !.bumpMin = 1, !.bumpMax = 3]

\* The controller running with the collection ents, the continuations trans
\* in flight, the icons `icons` cached and the tunables s; nothing stored.
RunningWith(ents, trans, icons, s) ==
    /\ entities = ents
    /\ nextId = Len(ents) + Cardinality({p \in trans : p.kind = "mount"}) + 1
    /\ pending = trans
    /\ cache = icons
    /\ totalCounts = GetCounts(ents)
    /\ running = TRUE /\ timers = ScheduleNextSpawn(AllTimers, 5, 0)
    /\ storage = NoSnapshot /\ savedFrom = <<>>
    /\ settings = s
    /\ prefs = IF s = DefaultSettings THEN NoPrefs ELSE SavedPrefs(s, NoLogo)
    /\ viewport = [w |-> 420 * U, h |-> 150 * U]
    /\ pc = "idle" /\ cur = <<1, 1>> /\ pre = ents /\ step = NoStep
    /\ ticks = 0
    /\ dnaCur = EmptyDna /\ dnaCall = [op |-> "none", gen |-> 0]

\* The same with every icon cached and the tunables of the scenarios.
Running(ents, trans) == RunningWith(ents, trans, IconNames, SceneSettings)

Init ==
    /\ \E ka \in FirstKinds, kb \in SecondKinds, m \in Meetings :
          Running(<< MakeEntity(ka, 1, 100 * U, 60 * U, m[3], m[4]),
                     MakeEntity(kb, 2, 100 * U + m[1], 60 * U + m[2], m[5], m[6]) >>,
                  TurningOf(<<ka, kb>>))
    /\ logo = NoLogo
    /\ kicks = 0

Next ==
    \/ TickUpdate \/ DivideDone \/ LogoUpdate \/ CollidePair \/ CollideDone \/ TickEnd
    \/ TransformFetched \/ TransformSwap \/ DeathTimeout

Spec == Init /\ [][Next]_vars

\* ---- Properties of one resolved pair ----
\* The last step resolved the pair (pre[step.i], pre[step.j]).
PairStep == step.kind = "pair"

\* Index of the entity the virus attacked in the last pair step, 0 if none.
TargetIndex == IF step.target = "a" THEN step.i ELSE IF step.target = "b" THEN step.j ELSE 0
VirusIndex == IF step.target = "a" THEN step.j ELSE step.i

\* Before the pair was resolved, the attacked entity carried a full shield,
\* was moving, and the virus lay exactly in its direction of travel.
VirusDeadAhead ==
    /\ PairStep /\ TargetIndex # 0
    /\ DnaGet(pre[TargetIndex].dna, "shield") = GENE_DEFS["shield"].max
    /\ Hypot(pre[TargetIndex].vx, pre[TargetIndex].vy) > U \div 100
    /\ Atan2Deg(pre[VirusIndex].y - pre[TargetIndex].y, pre[VirusIndex].x - pre[TargetIndex].x)
          = Atan2Deg(pre[TargetIndex].vy, pre[TargetIndex].vx)

\* C1 (as claimed): when a contact between a 'virus-filled' entity and a cell
\* with shield 1.0 is resolved and the virus lies directly ahead of the
\* cell's direction of travel at the moment of contact, the cell is not
\* killed (die() is not called), whatever the kill chance and the roll.
C1_ShieldBlocksAhead ==
    VirusDeadAhead => ~entities[TargetIndex].dying

\* C5: when a 'bug' collides with a live, non-dying 'virus-filled' entity,
\* that entity's entityKey is 'cell' as soon as the pair is resolved, also
\* when an earlier transform is pending or its infected guard is set.
C5_TriggerCure ==
    PairStep =>
        /\ (pre[step.i].entityKey = "bug" /\ pre[step.j].entityKey = "virus-filled")
              => entities[step.j].entityKey = "cell"
        /\ (pre[step.i].entityKey # "bug" /\ pre[step.j].entityKey = "bug"
              /\ pre[step.i].entityKey = "virus-filled")
              => entities[step.i].entityKey = "cell"

\* A bug has just cured a 'virus-filled' entity whose guard was set and whose
\* earlier transform was still waiting for its icon.
C5_Witness ==
    /\ PairStep
    /\ pre[step.i].entityKey = "bug"
    /\ pre[step.j].entityKey = "virus-filled" /\ pre[step.j].infected
    /\ \E p \in pending : p.kind = "fetch" /\ p.id = pre[step.j].id /\ p.iconName = "virus-filled"
    /\ entities[step.j].entityKey = "cell"

\* Displacement of entity n by the last step.
MovedX(n) == entities[n].x - pre[n].x
MovedY(n) == entities[n].y - pre[n].y

\* C7: for two live, non-dying, non-bug entities at distance 0 < d <
\* COLLISION_DIAMETER, resolving the pair displaces them by opposite vectors
\* along the collision normal, each of length (COLLISION_DIAMETER - d) / 2
\* (to the resolution of the fixed-point numbers), and calls onHit() on both.
C7_CollisionSymmetry ==
    (PairStep /\ pre[step.i].entityKey # "bug" /\ pre[step.j].entityKey # "bug") =>
        LET d       == Hypot(pre[step.j].x - pre[step.i].x, pre[step.j].y - pre[step.i].y)
            overlap == COLLISION_DIAMETER - d
        IN  /\ 0 < d /\ d < COLLISION_DIAMETER
            /\ MovedX(step.i) = -MovedX(step.j)
            /\ MovedY(step.i) = -MovedY(step.j)
            /\ Abs(2 * Hypot(MovedX(step.j), MovedY(step.j)) - overlap) <= 3
            /\ MovedX(step.j) * (pre[step.j].x - pre[step.i].x)
                 + MovedY(step.j) * (pre[step.j].y - pre[step.i].y) >= 0
            /\ Abs(MovedX(step.j) * (pre[step.j].y - pre[step.i].y)
                   - MovedY(step.j) * (pre[step.j].x - pre[step.i].x)) <= 2 * d
            /\ step.hit = <<TRUE, TRUE>>

\* Two non-bug entities overlapping on an oblique normal have been resolved.
C7_Witness ==
    /\ PairStep
    /\ pre[step.i].entityKey # "bug" /\ pre[step.j].entityKey # "bug"
    /\ step.nx # 0 /\ step.ny # 0
    /\ step.dist < COLLISION_DIAMETER - 100
    /\ MovedX(step.j) > 0 /\ MovedY(step.j) > 0

\* ---------------------------------------------------------------------------
\* Specification of the simulation: one entity at the viewport's edges
\* ---------------------------------------------------------------------------
\* Positions next to each edge of the larger viewport; the smaller one leaves
\* the right-hand ones far outside.
EdgeXs == {ICON_HALF + 50, 400 * U}
EdgeYs == {ICON_HALF + 50, 150 * U - ICON_HALF - 50}

InitEdge ==
    /\ \E x \in EdgeXs, y \in EdgeYs, dir \in Directions :
          Running(<< MakeEntity("cell", 1, x, y, Rnd(dir[1] * BASE_SPEED, F),
                                Rnd(dir[2] * BASE_SPEED, F)) >>, {})
    /\ logo = NoLogo
    /\ kicks = 0

NextEdge ==
    \/ TickUpdate \/ DivideDone \/ LogoUpdate \/ CollideDone \/ TickEnd
    \/ Resize

SpecEdge == InitEdge /\ [][NextEdge]_vars

\* The position update() moves entity e to before the edge tests.
MovedToX(e) ==
    e.x + Rnd(e.vx * settings.moveSpeed
                * DnaGet(e.dna, IF e.entityKey = "virus-filled" THEN "hunt_speed" ELSE "speed"),
              MOVE_SPEED * F)
MovedToY(e) ==
    e.y + Rnd(e.vy * settings.moveSpeed
                * DnaGet(e.dna, IF e.entityKey = "virus-filled" THEN "hunt_speed" ELSE "speed"),
              MOVE_SPEED * F)

\* C6 (as claimed): for a mounted, live, non-dying entity that its move takes
\* to or past a viewport boundary, by any depth, after the update() call the
\* coordinate is exactly the boundary value (h, vw - h or vh - h) and the
\* velocity component does not point out of the viewport.
C6_EdgeBounce ==
    step.kind = "update" =>
        \A n \in 1..Len(pre) :
            (pre[n].el /\ pre[n].alive /\ ~pre[n].dying) =>
                /\ MovedToX(pre[n]) - ICON_HALF <= 0
                      => (entities[n].x = ICON_HALF /\ entities[n].vx >= 0)
                /\ MovedToX(pre[n]) + ICON_HALF >= viewport.w
                      => (entities[n].x = viewport.w - ICON_HALF /\ entities[n].vx <= 0)
                /\ MovedToY(pre[n]) - ICON_HALF <= 0
                      => (entities[n].y = ICON_HALF /\ entities[n].vy >= 0)
                /\ MovedToY(pre[n]) + ICON_HALF >= viewport.h
                      => (entities[n].y = viewport.h - ICON_HALF /\ entities[n].vy <= 0)

\* ---------------------------------------------------------------------------
\* Specification of the simulation: a population at the cap
\* ---------------------------------------------------------------------------
\* Cells laid out on a grid of 16 columns, a diameter and more apart, all
\* drifting the same way.  The first cell's division countdown reaches 0 in
\* the first tick.
GridStep == 25 * U
GridCell(i) ==
    MakeEntity(IF i = 1 THEN "ripe" ELSE "cell", i,
               20 * U + GridStep * ((i - 1) % 16),
               13 * U + GridStep * ((i - 1) \div 16),
               BASE_SPEED, 0)

\* No drift kick is drawn in this scenario.
InitCap ==
    /\ \E n \in {MAX_POPULATION - 1, MAX_POPULATION} :
          Running([i \in 1..n |-> GridCell(i)], {})
    /\ logo = NoLogo
    /\ kicks = MaxKicks

NextCap ==
    \/ TickUpdate \/ DivideCell \/ DivideDone \/ LogoUpdate \/ CollidePair \/ CollideDone
    \/ TickEnd \/ MountDone

SpecCap == InitCap /\ [][NextCap]_vars

\* C4: in the division block of a tick, with MAX_POPULATION entities (or more)
\* in the collection nothing divides: the block ends with the collection and
\* the mounts in flight as they were, ready cells included.  With fewer (so
\* with MAX_POPULATION - 1) and a cell whose countdown is 0, the step taken is
\* that cell's division: its countdown is reset, every other entity is as it
\* was, and exactly one offspring is created, a cell whose DNA is an outcome of
\* parent.dna.reproduce(MUTATION_RATE, 'cell').
C4_DivisionCap ==
    [][ pc = "divide" =>
          /\ Len(entities) >= MAX_POPULATION =>
                (entities' = entities /\ pending' = pending /\ pc' = "logo")
          /\ (Len(entities) < MAX_POPULATION /\ ReadyFrom(cur[1]) # {}) =>
                \E i \in ReadyFrom(cur[1]) :
                   /\ Len(entities') = Len(entities)
                   /\ ~WantsToDivide(entities'[i])
                   /\ \A j \in 1..Len(entities) : j # i => entities'[j] = entities[j]
                   /\ pending \subseteq pending'
                   /\ Cardinality(pending' \ pending) = 1
                   /\ \A p \in pending' \ pending :
                         /\ p.kind = "mount"
                         /\ p.ent.entityKey = "cell"
                         /\ p.ent.dna \in ReproduceOutcomes(entities[i].dna, MUTATION_RATE, "cell")
      ]_vars

\* The division block of a tick has ended with MAX_POPULATION entities in the
\* collection and a cell whose countdown is 0: it did not divide.
C4_Witness ==
    /\ pc = "logo"
    /\ Len(entities) = MAX_POPULATION
    /\ ReadyFrom(1) # {}
    /\ pending = {}

\* ---------------------------------------------------------------------------
\* Specification of the simulation: saving and reloading
\* ---------------------------------------------------------------------------
\* Two entities about to meet, one of them a virus or a bug, with the save
\* timer and page reloads between the ticks (the closing meetings along the
\* x axis).  The logo's icons stay loading and the settings panel has not been
\* touched.
SaverKinds == {"virus", "bug", "turning"}
SavedKinds == {"cell", "resistant", "turned"}

InitPersist ==
    /\ \E ka \in SaverKinds, kb \in SavedKinds,
          m \in {n \in Meetings : n[2] = 0 /\ n[3] > 0} :
          RunningWith(<< MakeEntity(ka, 1, 100 * U, 60 * U, m[3], m[4]),
                         MakeEntity(kb, 2, 100 * U + m[1], 60 * U + m[2], m[5], m[6]) >>,
                      TurningOf(<<ka, kb>>), IconNames, DefaultSettings)
    /\ logo = NoLogo
    /\ kicks = MaxKicks

NextPersist ==
    \/ TickUpdate \/ DivideDone \/ LogoUpdate \/ CollidePair \/ CollideDone \/ TickEnd
    \/ TransformFetched \/ TransformSwap \/ DeathTimeout
    \/ SaveState \/ Reload

SpecPersist == InitPersist /\ [][NextPersist]_vars

\* (form key, x, y, vx, vy, trait-set) of an entity and of a snapshot entry.
TupleOf(e) == <<e.entityKey, e.x, e.y, e.vx, e.vy, e.dna>>
TupleOfEntry(s) == <<s.name, s.x, s.y, s.vx, s.vy, Deserialise(s.dna)>>
TimesIn(ts, t) == Cardinality({i \in 1..Len(ts) : ts[i] = t})
SameMultiset(ts, us) ==
    /\ Len(ts) = Len(us)
    /\ \A i \in 1..Len(ts) : TimesIn(ts, ts[i]) = TimesIn(us, ts[i])
LiveAtSave == SelectSeq(savedFrom, IsLive)

\* C10: the stored snapshot holds exactly the entities that were live and not
\* dying when #saveState wrote it (so no dying or dead one), and after
\* #restoreState into a fresh controller, every icon having loaded, the
\* multiset of (form key, x, y, vx, vy, trait-set) over the entity collection
\* equals that of those entities.  (A save whose write fails leaves the
\* previous snapshot, which is the one a restore then reads.)
C10_RoundTrip ==
    /\ storage.type = "object" =>
          SameMultiset([i \in 1..Len(storage.entities) |-> TupleOfEntry(storage.entities[i])],
                       [i \in 1..Len(LiveAtSave) |-> TupleOf(LiveAtSave[i])])
    /\ (step.kind = "reload" /\ step.allLoaded /\ storage.type = "object") =>
          SameMultiset([i \in 1..Len(entities) |-> TupleOf(entities[i])],
                       [i \in 1..Len(LiveAtSave) |-> TupleOf(LiveAtSave[i])])

\* A snapshot saved while the collection held a dying or dead entity next to
\* a live one has been restored with every icon loading.
C10_Witness ==
    /\ step.kind = "reload" /\ step.allLoaded
    /\ storage.type = "object"
    /\ Len(entities) >= 1
    /\ \E i \in 1..Len(savedFrom) : ~IsLive(savedFrom[i])

\* ---------------------------------------------------------------------------
\* Specification of the simulation: entities bumping into the logo
\* ---------------------------------------------------------------------------
\* The word in the middle of the viewport.  Its first letter is attached, with
\* no bump or one bump of its cycle behind it; its last letter is attached, or
\* flying close to its slot, or flying far from it (with or without a bump
\* since its ejection).  One entity is about to touch the first letter, another
\* the place where the last letter flies when it is far.
FirstLetterBumps == {0, 1}
LastLetterStates == {"attached", "near", "far", "farBumped"}

LogoLetterAt(i, wordX, wordY, bumps, last) ==
    LET l == SnapToSlot([NewLetter(i, 1) EXCEPT !.mounted = TRUE], wordX, wordY)
    IN  IF i = 1 THEN [l EXCEPT !.bumpCount = bumps, !.totalHits = bumps]
        ELSE IF i = Len(WORD_ICONS) /\ last = "near"
           THEN [l EXCEPT !.ejected = TRUE, !.x = l.x + 2050, !.totalHits = 2]
        ELSE IF i = Len(WORD_ICONS) /\ last \in {"far", "farBumped"}
           THEN [l EXCEPT !.ejected = TRUE, !.y = l.y + 40 * U,
                          !.bumpCount = IF last = "far" THEN 0 ELSE 1,
                          !.totalHits = IF last = "far" THEN 2 ELSE 3]
        ELSE l

InitLogo ==
    /\ Running(<< MakeEntity("cell", 1, 3550, 75 * U, BASE_SPEED, 0),
                  MakeEntity("bacteria", 2, 38450, 115 * U, -BASE_SPEED, 0) >>, {})
    /\ kicks = 0
    /\ \E dir \in Directions, bumps \in FirstLetterBumps, last \in LastLetterStates :
          logo = [ready |-> TRUE, wordX |-> 210 * U, wordY |-> 75 * U,
                  wordVx |-> Rnd(dir[1] * LOGO_WORD_BASE_SPEED, F),
                  wordVy |-> Rnd(dir[2] * LOGO_WORD_BASE_SPEED, F),
                  letters |-> [i \in Slots |-> LogoLetterAt(i, 210 * U, 75 * U, bumps, last)]]

NextLogo ==
    \/ TickUpdate \/ DivideDone \/ LogoUpdate \/ CollideDone \/ LetterHit \/ TickEnd

SpecLogo == InitLogo /\ [][NextLogo]_vars

WithinReattachRadius(l, wordX, wordY) ==
    /\ Abs(l.x - SlotX(l, wordX)) <= LOGO_REATTACH_RADIUS
    /\ Abs(l.y - SlotY(l, wordY)) <= LOGO_REATTACH_RADIUS
    /\ (l.x - SlotX(l, wordX)) * (l.x - SlotX(l, wordX))
         + (l.y - SlotY(l, wordY)) * (l.y - SlotY(l, wordY))
       <= LOGO_REATTACH_RADIUS * LOGO_REATTACH_RADIUS

\* C3: in every step, a letter goes from ejected to attached only if the step
\* is LogoController.update and the letter, after updateEjected, lay within
\* LOGO_REATTACH_RADIUS of its slot for the word origin as just moved; right
\* after the step its velocity is (0, 0), its bumpCount is 0 and its position
\* is that slot position.
C3_Reattachment ==
    [][ (logo.ready /\ logo'.ready) =>
          \A i \in Slots :
             (logo.letters[i].ejected /\ ~logo'.letters[i].ejected) =>
                /\ pc = "logo" /\ pc' = "collide"
                /\ WithinReattachRadius(
                      UpdateEjected(logo.letters[i], logo'.wordX, logo'.wordY,
                                    settings.moveSpeed, viewport.w, viewport.h),
                      logo'.wordX, logo'.wordY)
                /\ logo'.letters[i].vx = 0 /\ logo'.letters[i].vy = 0
                /\ logo'.letters[i].bumpCount = 0
                /\ logo'.letters[i].x = SlotX(logo'.letters[i], logo'.wordX)
                /\ logo'.letters[i].y = SlotY(logo'.letters[i], logo'.wordY)
      ]_vars

\* update() has just reattached a letter that was flying.
C3_Witness ==
    /\ pc = "collide" /\ step.kind = "logo"
    /\ \E i \in Slots :
          /\ step.before[i].ejected /\ (step.before[i].vx # 0 \/ step.before[i].x # logo.letters[i].x)
          /\ ~logo.letters[i].ejected
          /\ logo.letters[i].vx = 0 /\ logo.letters[i].vy = 0

\* ---------------------------------------------------------------------------
\* Specification of the DNA operations on their own
\* ---------------------------------------------------------------------------
\* The simulation before init(): nothing exists yet.
SimOff ==
    /\ entities = <<>> /\ nextId = 1 /\ pending = {} /\ cache = {}
    /\ totalCounts = [k \in IconNames |-> 0]
    /\ running = FALSE /\ timers = NoTimers
    /\ storage = NoSnapshot /\ savedFrom = <<>>
    /\ settings = DefaultSettings /\ prefs = NoPrefs
    /\ viewport = [w |-> 420 * U, h |-> 150 * U]
    /\ logo = NoLogo
    /\ pc = "idle" /\ cur = <<1, 1>> /\ pre = <<>> /\ step = NoStep
    /\ ticks = 0 /\ kicks = 0

\* DNAs whose values lie within their genes' ranges.
SeedDnas ==
    { EmptyDna,
      [g \in {"speed"} |-> GENE_DEFS[g].min],
      [g \in {"resistance", "shield"} |-> GENE_DEFS[g].max],
      [g \in {"lethality", "hunt_speed"} |-> GENE_DEFS[g].default],
      [g \in {"division_rate"} |-> GENE_DEFS[g].max - 1] }

\* Arguments for deserialise: what a parsed snapshot can hold.
JsonInputs(d) ==
    { Serialise(d), JsNull, JsStr,
      JsObj([k \in {"speed", "shield"} |-> JsNum(99 * F)]),
      JsObj([k \in {"resistance", "hunt_speed"} |-> JsNum(-F)]),
      JsObj([k \in {"lethality", "wings"} |-> IF k = "wings" THEN JsNum(1) ELSE JsStr]) }

\* Arguments for withGenes.
NameLists == { {}, {"speed"}, {"shield", "resistance"}, {"wings", "lethality"}, GeneNames }

MutationRates == {0, MUTATION_RATE, F}
Pools == {"cell", "virus"}

InitDNA ==
    /\ SimOff
    /\ dnaCur \in SeedDnas
    /\ dnaCall = [op |-> "none", gen |-> 0]

DnaReproduce ==
    /\ dnaCall.gen < MaxGen
    /\ \E rate \in MutationRates, pool \in Pools :
          \E child \in ReproduceOutcomes(dnaCur, rate, pool) :
             /\ dnaCur' = child
             /\ dnaCall' = [op |-> "reproduce", gen |-> dnaCall.gen + 1, parent |-> dnaCur,
                            rate |-> rate, pool |-> pool]
    /\ UNCHANGED simVars

DnaDeserialise ==
    /\ dnaCall.gen < MaxGen
    /\ \E obj \in JsonInputs(dnaCur) :
          /\ dnaCur' = Deserialise(obj)
          /\ dnaCall' = [op |-> "deserialise", gen |-> dnaCall.gen + 1, arg |-> obj]
    /\ UNCHANGED simVars

DnaWithGenes ==
    /\ dnaCall.gen < MaxGen
    /\ \E names \in NameLists :
          /\ dnaCur' = WithGenes(names)
          /\ dnaCall' = [op |-> "withGenes", gen |-> dnaCall.gen + 1, arg |-> names]
    /\ UNCHANGED simVars

DnaForVirus ==
    /\ dnaCall.gen < MaxGen
    /\ dnaCur' = ForVirus(dnaCur)
    /\ dnaCall' = [op |-> "forVirus", gen |-> dnaCall.gen + 1, arg |-> dnaCur]
    /\ UNCHANGED simVars

NextDNA == DnaReproduce \/ DnaDeserialise \/ DnaWithGenes \/ DnaForVirus
SpecDNA == InitDNA /\ [][NextDNA]_vars

\* A DNA holds only registered genes, each within its range.
InRange(d) ==
    \A g \in DOMAIN d :
        /\ g \in GeneNames
        /\ GENE_DEFS[g].min <= d[g] /\ d[g] <= GENE_DEFS[g].max

\* C8: every value stored in a DNA returned by reproduce, deserialise,
\* withGenes or forVirus lies within [min, max] of its gene (the DNA it was
\* derived from being within range), and so does every DNA an entity of the
\* simulation carries.
C8_TraitClamp ==
    /\ InRange(dnaCur)
    /\ \A i \in 1..Len(entities) : InRange(entities[i].dna)
    /\ \A p \in pending : p.kind = "mount" => InRange(p.ent.dna)

\* deserialise was given a value above its gene's maximum and stored the maximum.
C8_Witness ==
    /\ dnaCall.op = "deserialise"
    /\ dnaCall.arg.type = "object"
    /\ \E g \in DOMAIN dnaCur :
          /\ dnaCall.arg.fields[g].v > GENE_DEFS[g].max
          /\ dnaCur[g] = GENE_DEFS[g].max

\* C9: reproduce(0, pool) returns a DNA with exactly the genes and values of
\* the DNA it was called on, for every DNA and either pool.
C9_ZeroRate ==
    (dnaCall.op = "reproduce" /\ dnaCall.rate = 0) => dnaCur = dnaCall.parent

\* reproduce(0, pool) was called on a DNA with active genes.
C9_Witness ==
    /\ dnaCall.op = "reproduce" /\ dnaCall.rate = 0
    /\ DnaSize(dnaCall.parent) > 0
    /\ dnaCur = dnaCall.parent

\* ---------------------------------------------------------------------------
\* Specification of stop() against the work in flight
\* ---------------------------------------------------------------------------
\* Between two ticks: a cell, and a cell whose transform is waiting for its
\* icon; the first cell has just divided and its offspring is mounting.  The
\* spawn timer is armed, and with one 'cell' in the collection it spawns a
\* second one.  The icon of the transform may be cached or not.
InitStop ==
    /\ \E icons \in {{"cell"}, IconNames} :
          RunningWith(<< MakeEntity("cell", 1, 60 * U, 40 * U, BASE_SPEED, 0),
                         MakeEntity("turning", 2, 380 * U, 40 * U, 0, BASE_SPEED) >>,
                      { [kind |-> "fetch", id |-> 2, iconName |-> "virus-filled",
                         hit |-> "virus-filled" \in icons],
                        [kind |-> "mount", origin |-> "offspring", hit |-> "cell" \in icons,
                         ent |-> MountStart(Spawned(3, "cell", <<60 * U, 40 * U>>,
                                                    <<0, F>>, EmptyDna))] },
                      icons, DefaultSettings)
    /\ logo = NoLogo
    /\ kicks = MaxKicks

NextStop ==
    \/ SpawnEntity \/ MountDone \/ TransformFetched \/ TransformSwap \/ Stop

SpecStop == InitStop /\ [][NextStop]_vars

\* C11: once stop() has returned (the loop flag is down; this specification
\* never restarts the controller), no tick is in progress or starts, neither
\* the spawn timer nor the save timer is pending, and the entity collection
\* stays empty, whatever spawn, division or transform was in flight.
C11_Cancellation ==
    ~running => /\ pc = "idle"
                /\ timers.spawn = 0 /\ ~timers.save
                /\ entities = <<>>

\* ---------------------------------------------------------------------------
\* Specification of clear()
\* ---------------------------------------------------------------------------
\* The logo scenario (two entities about to touch letters) with the save
\* timer and the reset button.
InitClear ==
    /\ Running(<< MakeEntity("cell", 1, 3550, 75 * U, BASE_SPEED, 0),
                  MakeEntity("bacteria", 2, 38450, 115 * U, -BASE_SPEED, 0) >>, {})
    /\ kicks = MaxKicks
    /\ \E bumps \in FirstLetterBumps, last \in {"attached", "farBumped"} :
          logo = [ready |-> TRUE, wordX |-> 210 * U, wordY |-> 75 * U,
                  wordVx |-> LOGO_WORD_BASE_SPEED, wordVy |-> 0,
                  letters |-> [i \in Slots |-> LogoLetterAt(i, 210 * U, 75 * U, bumps, last)]]

NextClear ==
    \/ TickUpdate \/ DivideDone \/ LogoUpdate \/ CollideDone \/ LetterHit \/ TickEnd
    \/ SaveState \/ Clear

SpecClear == InitClear /\ [][NextClear]_vars

\* C12: a clear() step leaves the collection empty, has destroyed every
\* entity the collection held, leaves every cumulative count at zero and the
\* elapsed time at zero, leaves every letter's cycle bumpCount at 0 and its
\* threshold within the configured range, leaves no snapshot stored, and has
\* dispatched 'evolutionCleared'; the loop flag and the spawn and save timers
\* are as they were.
C12_ClearPostcondition ==
    [][ step'.kind = "clear" =>
          /\ entities' = <<>>
          /\ Len(step'.destroyed) = Len(entities)
          /\ \A i \in 1..Len(entities) :
                step'.destroyed[i].id = entities[i].id /\ ~step'.destroyed[i].alive
          /\ \A k \in IconNames : totalCounts'[k] = 0
          /\ ticks' - timers'.start = 0
          /\ logo'.ready =>
                \A i \in Slots : /\ logo'.letters[i].bumpCount = 0
                                 /\ logo'.letters[i].bumpThreshold >= settings'.bumpMin
                                 /\ logo'.letters[i].bumpThreshold <= settings'.bumpMax
          /\ storage' = NoSnapshot
          /\ step'.event = "evolutionCleared"
          /\ running' = running /\ running'
          /\ timers'.spawn = timers.spawn /\ timers'.save = timers.save
      ]_vars

\* clear() has just run on a collection of two entities, after a tick, with
\* a snapshot stored and a letter that had been bumped.
C12_Witness ==
    /\ step.kind = "clear" /\ step.hadSnapshot
    /\ Len(pre) = 2 /\ entities = <<>>
    /\ ticks > 0
    /\ logo.ready /\ \E i \in Slots : logo.letters[i].totalHits > 0

\* ---------------------------------------------------------------------------
\* Specification of die(), with the scheduling of the timers and of the frames
\* ---------------------------------------------------------------------------
\* A cell and a virus (or a second cell) about to meet head-on next to the
\* first letter of the logo, which both touch; die() may be called on either
\* between two ticks.  The bump thresholds are set high: no letter is ejected.
InitDie ==
    /\ \E kb \in {"virus", "cell"} :
          RunningWith(<< MakeEntity("cell", 1, 3550, 75 * U, BASE_SPEED, 0),
                         MakeEntity(kb, 2, 3550 + 2450, 75 * U, -BASE_SPEED, 0) >>, {},
                      IconNames, [DefaultSettings EXCEPT !.bumpMin = 8, !.bumpMax = 10])
    /\ kicks = MaxKicks
    /\ logo = [ready |-> TRUE, wordX |-> 210 * U, wordY |-> 75 * U,
               wordVx |-> LOGO_WORD_BASE_SPEED, wordVy |-> 0,
               letters |-> [i \in Slots |->
                  [LogoLetterAt(i, 210 * U, 75 * U, 0, "attached") EXCEPT !.bumpThreshold = 8]]]

TickSteps ==
    \/ TickUpdate \/ DivideDone \/ LogoUpdate \/ CollidePair \/ CollideDone \/ LetterHit
    \/ TickEnd

NextDie == TickSteps \/ DeathTimeout \/ DieCalled

\* A timer that is due fires, and while the loop runs the browser delivers
\* the next animation frame.
SpecDie ==
    InitDie /\ [][NextDie]_vars /\ WF_vars(DeathTimeout) /\ WF_vars(TickSteps)

Held(id) == \E i \in 1..Len(entities) : entities[i].id = id
HeldDying(id) == \E i \in 1..Len(entities) : entities[i].id = id /\ entities[i].dying
HeldDead(id) == \E i \in 1..Len(entities) : entities[i].id = id /\ ~entities[i].alive

\* C13: (1) a step in which an entity starts dying leaves it with velocity
\* zero and one removal timer; (2) die() on an entity that is dying, dead or
\* unmounted changes nothing, and no entity ever has a second removal timer;
\* (3) while an entity is dying, no step (update, entity collision, letter
\* collision) changes its position or velocity, no letter is bumped by it
\* and a collision pair it belongs to changes nothing; (4) a dying entity is
\* eventually destroyed, and a destroyed entity is out of the collection
\* after the next tick (while the model has a tick left).
C13_DieLifecycle ==
    /\ [][ /\ \A i \in 1..Len(entities), j \in 1..Len(entities') :
                entities'[j].id = entities[i].id =>
                   /\ (~entities[i].dying /\ entities'[j].dying) =>
                         /\ entities'[j].vx = 0 /\ entities'[j].vy = 0
                         /\ entities'[j].removals = 1
                   /\ entities[i].dying =>
                         /\ entities'[j].x = entities[i].x /\ entities'[j].y = entities[i].y
                         /\ entities'[j].vx = 0 /\ entities'[j].vy = 0
                         /\ entities'[j].dying /\ entities'[j].removals = 1
           /\ (step'.kind = "die" /\ (step'.before.dying \/ ~step'.before.alive)) =>
                 entities' = entities
           /\ step'.kind = "bump" => ~entities[step'.i].dying
           /\ (step'.kind = "pair" /\ (entities[step'.i].dying \/ entities[step'.j].dying)) =>
                 entities' = entities
         ]_vars
    /\ \A id \in 1..2 :
          /\ [](HeldDying(id) => <>(HeldDead(id) \/ ~Held(id)))
          /\ []((HeldDead(id) /\ ticks < MaxTicks) => <>(~Held(id)))

\* An entity that was dying, with its one removal timer, has been destroyed
\* by the timer and the following tick has pruned it from the collection.
C13_Witness ==
    /\ step.kind = "prune" /\ Len(entities) = 1 /\ Len(pre) = 2
    /\ \E i \in 1..2 : ~pre[i].alive /\ pre[i].dying /\ pre[i].removals = 1
    /\ ticks = MaxTicks

\* ---------------------------------------------------------------------------
\* Specification of infectWith on its own
\* ---------------------------------------------------------------------------
\* One entity at hand: a fresh cell with genes, a cell already transformed
\* (guard set), a dying one, a destroyed one, or one that was constructed but
\* not mounted.  The icons of the transforms may be cached or not.
InfectSubjects == {"resistant", "turned", "dying", "dead", "unmounted"}
SubjectOf(k) ==
    LET cell == MakeEntity(IF k = "turned" THEN "turned" ELSE "resistant",
                           1, 100 * U, 60 * U, BASE_SPEED, 0)
    IN  CASE k = "dying" -> Die(cell)
          [] k = "dead" -> Destroy(Die(cell))
          [] k = "unmounted" -> [cell EXCEPT !.el = FALSE, !.divTimer = -1]
          [] OTHER -> cell

InitInfect ==
    /\ \E k \in InfectSubjects, icons \in {{"cell"}, IconNames} :
          RunningWith(<<SubjectOf(k)>>, {}, icons, DefaultSettings)
    /\ logo = NoLogo
    /\ kicks = MaxKicks

NextInfect == InfectCalled \/ TransformFetched \/ TransformSwap

SpecInfect == InitInfect /\ [][NextInfect]_vars

\* C14: a call of infectWith without force on an entity whose transform
\* guard is set, and a call with any force on an entity that is dying, dead
\* or unmounted, changes nothing of the entity (form key, trait-set, division
\* countdown, guard) and leaves no continuation behind; and when the icon
\* fetch of a transform fails, the call settles there: its continuation is
\* gone, nothing else is and the loop flag is untouched.
C14_TransformGuard ==
    [][ /\ step'.kind = "infect" =>
              LET e == step'.before
              IN  ((~step'.force /\ e.infected) \/ e.dying \/ ~e.alive \/ ~e.el) =>
                     /\ entities' = entities
                     /\ pending' = pending
        /\ (step'.kind = "fetched" /\ ~step'.ok) =>
              /\ pending' \subseteq pending
              /\ Cardinality(pending \ pending') = 1
              /\ running' = running
      ]_vars

\* infectWith has just been called without force on a live, mounted entity
\* whose guard was set.
C14_Witness ==
    /\ step.kind = "infect" /\ ~step.force
    /\ step.before.infected /\ step.before.alive /\ step.before.el /\ ~step.before.dying
    /\ entities = pre

\* C16: when the icon fetch of an infectWith call fails, the entity, if it
\* is still held, has the form key, the trait-set and the guard it had when
\* the call was made.
C16_TransformRollback ==
    [][ (step'.kind = "fetched" /\ ~step'.ok) =>
           \A p \in pending \ pending' :
              \A i \in 1..Len(entities') :
                 entities'[i].id = p.id =>
                    /\ entities'[i].entityKey = p.was.entityKey
                    /\ entities'[i].dna = p.was.dna
                    /\ entities'[i].infected = p.was.infected
      ]_vars

\* ---------------------------------------------------------------------------
\* Specification of two bug contacts in a row
\* ---------------------------------------------------------------------------
\* A bug, a cell (fresh, or turned into 'virus-filled' by an earlier bug
\* contact, its transform finished or not) and a second bug on one line: the
\* first bug reaches the cell in the first tick, the second bug in the second.
InitCure ==
    /\ \E k \in {"cell", "resistant", "shielded", "turned", "turning"} :
          Running(<< MakeEntity("bug", 1, 100 * U - 2450, 60 * U, BASE_SPEED, 0),
                     MakeEntity(k, 2, 100 * U, 60 * U, 0, 0),
                     MakeEntity("bug", 3, 100 * U + 2550, 60 * U, -BASE_SPEED, 0) >>,
                  TurningOf(<<"bug", k, "bug">>))
    /\ logo = NoLogo
    /\ kicks = MaxKicks

NextCure ==
    \/ TickUpdate \/ DivideDone \/ LogoUpdate \/ CollidePair \/ CollideDone \/ TickEnd
    \/ TransformFetched \/ TransformSwap

SpecCure == InitCure /\ [][NextCure]_vars

\* C15: right after a collision pair made of a 'bug' and a live, non-dying
\* entity whose form was neither 'bug', 'bacteria' nor 'virus-filled', that
\* entity's form is 'virus-filled' and its trait-set is DNA.forVirus of the
\* trait-set it had; also when it had been infected and cured before.
C15_TriggerContact ==
    PairStep =>
       \A p \in {<<step.i, step.j>>, <<step.j, step.i>>} :
          ( /\ pre[p[1]].entityKey = "bug"
            /\ pre[p[2]].entityKey \notin {"bug", "bacteria", "virus-filled"}
            /\ pre[p[2]].alive /\ ~pre[p[2]].dying )
          => /\ entities[p[2]].entityKey = "virus-filled"
             /\ entities[p[2]].dna = ForVirus(pre[p[2]].dna)

\* ---------------------------------------------------------------------------
\* Specifications of the spawn timer and of the manual spawns
\* ---------------------------------------------------------------------------
\* Between two ticks, with the spawn timer armed: a small collection (no
\* entity, one or two cells, one of them possibly dying, a bug), a bug cap of
\* 0, 1 or 2 that the collection respects, and an icon cache that holds the
\* icons of the entities present, or every icon.
SpawnScenes == {"empty", "cell", "cells", "dyingCell", "bug", "bugs"}
SceneOf(sc) ==
    LET cell(id) == MakeEntity("cell", id, 60 * U, 40 * U * id, BASE_SPEED, 0)
        bug(id)  == MakeEntity("bug", id, 380 * U, 40 * U * id, 0, BASE_SPEED)
    IN  CASE sc = "empty" -> <<>>
          [] sc = "cell" -> <<cell(1)>>
          [] sc = "cells" -> <<cell(1), cell(2)>>
          [] sc = "dyingCell" -> <<Die(cell(1)), cell(2)>>
          [] sc = "bug" -> <<bug(1), cell(2)>>
          [] sc = "bugs" -> <<bug(1), bug(2)>>

InitScene(scenes) ==
    /\ \E sc \in scenes, cap \in 0..BUG_MAX_COUNT, warm \in BOOLEAN :
          /\ FormCount(SceneOf(sc), "bug") <= cap
          /\ RunningWith(SceneOf(sc), {},
                         IF warm THEN IconNames
                         ELSE {SceneOf(sc)[i].name : i \in 1..Len(SceneOf(sc))},
                         [DefaultSettings EXCEPT !.bugMaxCount = cap])
    /\ logo = NoLogo
    /\ kicks = MaxKicks

\* The spawn timer and the slider of the spawn rate.
InitTimer == InitScene(SpawnScenes)
NextTimer == SpawnEntity \/ MountDone \/ SetSpawnRate
SpecTimer == InitTimer /\ [][NextTimer]_vars

\* The spawn timer and the manual spawns, from one or two cells.
InitSpawn == InitScene({"cell", "cells"})
NextSpawn == SpawnEntity \/ MountDone \/ SpawnNamed
SpecSpawn == InitSpawn /\ [][NextSpawn]_vars

\* The mounts in flight that #spawnEntity started.
TimerMounts == {p \in pending : p.kind = "mount" /\ p.origin = "timer"}

\* C17: a spawn whose mount fails leaves no trace: no entity of the
\* collection is unmounted or dead, the cumulative count of a form never
\* exceeds the entities of that name in the collection plus the mounts of
\* that name still in flight, and whenever no timer spawn is in flight the
\* spawn timer is armed.
C17_SpawnAbort ==
    /\ \A i \in 1..Len(entities) : entities[i].alive /\ entities[i].el
    /\ \A k \in IconNames :
          totalCounts[k] <= Cardinality({i \in 1..Len(entities) : entities[i].name = k})
                            + Cardinality({p \in pending : p.kind = "mount" /\ p.ent.name = k})
    /\ TimerMounts = {} => timers.spawn # 0

\* A step that arms the spawn timer: #spawnEntity returned without spawning,
\* or the mount it awaited has settled.
Rearms(st) ==
    \/ st.kind = "spawn" /\ st.name = "none"
    \/ st.kind = "mount" /\ st.origin = "timer"

\* C18: at most one timer spawn is in flight and the spawn timer is never
\* pending while one is; setSpawnRate leaves the pending timer as it is; and
\* every delay armed lies in [min, max] computed from the rate set at that
\* moment, with min >= 300, max >= 1500 and min <= max (3000 and 20000 ms at
\* rate 5).
C18_SpawnScheduling ==
    [][ /\ Cardinality(TimerMounts') <= 1
        /\ timers'.spawn # 0 => TimerMounts' = {}
        /\ step'.kind = "setSpawnRate" => timers' = timers
        /\ Rearms(step') =>
              \E rate \in {settings'.spawnRate} :
                 /\ timers'.spawn >= SpawnDelayMin(rate)
                 /\ timers'.spawn <= SpawnDelayMax(rate)
                 /\ SpawnDelayMin(rate) >= 300 /\ SpawnDelayMax(rate) >= 1500
                 /\ SpawnDelayMin(rate) <= SpawnDelayMax(rate)
                 /\ rate = 5 => /\ SpawnDelayMin(rate) = SPAWN_DELAY_MIN
                                /\ SpawnDelayMax(rate) = SPAWN_DELAY_MAX
      ]_vars

\* The mount of a timer spawn has settled and the next timer is armed, with
\* a delay of the fast rate the slider was moved to.
C18_Witness ==
    /\ step.kind = "mount" /\ step.origin = "timer"
    /\ settings.spawnRate = 10
    /\ timers.spawn >= SpawnDelayMin(10) /\ timers.spawn <= SpawnDelayMax(10)
    /\ timers.spawn < SPAWN_DELAY_MIN

LiveCells(ents) ==
    Cardinality({i \in 1..Len(ents) :
                    ents[i].entityKey = "cell" /\ ents[i].alive /\ ~ents[i].dying})

\* C19: when #spawnEntity decides to spawn a 'cell', fewer than
\* MIN_CELL_COUNT live (alive, not dying) cells are in the collection, and
\* the entity a timer spawn adds is the one that was decided.
C19_MinimumCells ==
    [][ /\ (step'.kind = "spawn" /\ step'.name = "cell") =>
              LiveCells(entities) < MIN_CELL_COUNT
        /\ (step'.kind = "spawn" /\ LiveCells(entities) >= MIN_CELL_COUNT) =>
              \A p \in TimerMounts' : p.ent.name # "cell"
        /\ (step'.kind = "mount" /\ step'.origin = "timer" /\ step'.ok) =>
              \E p \in TimerMounts :
                 /\ p.ent.id = step'.id
                 /\ entities'[Len(entities')].name = p.ent.name
      ]_vars

\* A cell spawned by the timer has been added to a collection that held
\* fewer than MIN_CELL_COUNT live cells.
C19_Witness ==
    /\ step.kind = "mount" /\ step.origin = "timer" /\ step.ok
    /\ Len(entities) = Len(pre) + 1 /\ LiveCells(pre) < MIN_CELL_COUNT
    /\ entities[Len(entities)].name = "cell"

\* C20: in the specification without manual spawns and without a change of
\* the cap: #spawnEntity decides for a 'bug' only when fewer than bugMaxCount
\* 'bug' entities are in the collection; the bugs in the collection and in
\* flight never exceed bugMaxCount; with bugMaxCount = 0 there is none.
C20_BugCap ==
    /\ (step.kind = "spawn" /\ step.name = "bug") => step.bugs < settings.bugMaxCount
    /\ FormCount(entities, "bug")
         + Cardinality({p \in TimerMounts : p.ent.name = "bug"}) <= settings.bugMaxCount
    /\ settings.bugMaxCount = 0 =>
          /\ FormCount(entities, "bug") = 0
          /\ \A p \in TimerMounts : p.ent.name # "bug"

\* The timer has added a bug that brings the collection to the cap of 2.
C20_Witness ==
    /\ step.kind = "mount" /\ step.origin = "timer" /\ step.ok
    /\ entities[Len(entities)].name = "bug"
    /\ FormCount(entities, "bug") = settings.bugMaxCount
    /\ settings.bugMaxCount = BUG_MAX_COUNT

\* ---------------------------------------------------------------------------
\* Specification of init() over what localStorage holds
\* ---------------------------------------------------------------------------
\* A page load with the clock at 1.  Under the key there is nothing, or text
\* that does not parse, or JSON that is not an object, or a snapshot an earlier
\* page wrote at time 0 (a cell, a bug, the logo), or that snapshot with one
\* field malformed: an entry of entities that is null, a startTime or a logo
\* that is a string.
SavedScene ==
    << MakeEntity("cell", 1, 60 * U, 40 * U, BASE_SPEED, 0),
       MakeEntity("bug", 2, 380 * U, 40 * U, 0, BASE_SPEED) >>
SavedLogo ==
    [ready |-> TRUE, wordX |-> 210 * U, wordY |-> 75 * U,
     wordVx |-> LOGO_WORD_BASE_SPEED, wordVy |-> 0,
     letters |-> [i \in Slots |-> LogoLetterAt(i, 210 * U, 75 * U, 1, "attached")]]
GoodSnapshot == Snapshot(SavedScene, SavedLogo, GetCounts(SavedScene), 0)
StoredValues ==
    { NoSnapshot, [type |-> "garbage"], JsStr, GoodSnapshot,
      [GoodSnapshot EXCEPT !.entities = <<GoodSnapshot.entities[1], JsNull>>],
      [GoodSnapshot EXCEPT !.entities = <<JsNull, GoodSnapshot.entities[2]>>,
                           !.totalCounts = [k \in IconNames |-> 0]],
      [GoodSnapshot EXCEPT !.startTime = JsStr],
      [GoodSnapshot EXCEPT !.logo = JsStr] }

InitRestore ==
    /\ entities = <<>> /\ nextId = 1 /\ pending = {} /\ cache = {}
    /\ totalCounts = [k \in IconNames |-> 0]
    /\ running = FALSE /\ timers = NoTimers
    /\ storage \in StoredValues
    /\ savedFrom = IF Parsed(storage) THEN SavedScene ELSE <<>>
    /\ settings = DefaultSettings /\ prefs = NoPrefs
    /\ viewport = [w |-> 420 * U, h |-> 150 * U]
    /\ logo = NoLogo
    /\ pc = "idle" /\ cur = <<1, 1>> /\ pre = <<>> /\ step = NoStep
    /\ ticks = 1 /\ kicks = MaxKicks
    /\ dnaCur = EmptyDna /\ dnaCall = [op |-> "none", gen |-> 0]

NextRestore == Reload \/ MountDone \/ SaveState

SpecRestore == InitRestore /\ [][NextRestore]_vars

\* The stored value is a snapshot with every field as #saveState writes it.
WellFormed(stored) ==
    /\ Parsed(stored)
    /\ stored.startTime.type = "number"
    /\ stored.logo.type \in {"null", "object"}
    /\ ~Throws(stored)

\* C21 (as claimed): when init() finds the snapshot missing, unparseable or
\* with a malformed field, the controller starts from the fresh default
\* state: the collection is empty and no restored entity is on its way into
\* it, every cumulative count is zero, the start time is the time of init,
\* and no saved logo state is handed on; and a save whose write fails leaves
\* the stored value, the collection and the loop as they were.
C21_CorruptRecovery ==
    [][ /\ (step'.kind = "reload" /\ ~WellFormed(storage)) =>
              /\ entities' = <<>>
              /\ \A p \in pending' : p.kind # "mount"
              /\ \A k \in IconNames : totalCounts'[k] = 0
              /\ timers'.start = ticks'
              /\ \A p \in pending' : p.kind = "logo" => p.saved.type = "null"
        /\ (step'.kind = "save" /\ ~step'.ok) =>
              /\ storage' = storage /\ entities' = entities
              /\ running' = running /\ pc' = pc
      ]_vars

\* ---------------------------------------------------------------------------
\* withGenes as the manual spawn uses it
\* ---------------------------------------------------------------------------
\* The gene pool of the entity being built: 'cell' genes for a cell, 'virus'
\* genes for a 'virus-filled', none for the forms that carry no DNA.
PoolOf(name) ==
    IF name = "cell" THEN "cell" ELSE IF name = "virus-filled" THEN "virus" ELSE "none"

\* C22 (as claimed): the DNA spawnNamedWithDna builds with withGenes holds
\* each named gene that is registered and belongs to the pool of the entity
\* being built, at min + 15% of its range, and nothing else: unknown names
\* and names of the wrong pool are skipped.
C22_WithGenes ==
    step.kind = "spawnNamed" =>
        \A p \in pending :
            (p.kind = "mount" /\ p.ent.id = step.id) =>
                /\ DOMAIN p.ent.dna =
                      {g \in step.geneNames \cap GeneNames :
                          GENE_DEFS[g].applies = PoolOf(step.name)}
                /\ \A g \in DOMAIN p.ent.dna :
                      p.ent.dna[g] = GENE_DEFS[g].min + Rnd(GeneRange(g) * 15, 100)

\* ---------------------------------------------------------------------------
\* Specification of the settings panel: the range and a slider are changed,
\* the page is reloaded
\* ---------------------------------------------------------------------------
InitSettings ==
    /\ RunningWith(<<>>, {}, IconNames, DefaultSettings)
    /\ logo = NoLogo
    /\ kicks = MaxKicks

NextSettings == ThresholdInput \/ SetSpawnRate \/ Reload

SpecSettings == InitSettings /\ [][NextSettings]_vars

\* C23 (as claimed): the settings round trip.  A reload leaves every tunable,
\* the bump-threshold range included, at the value it had been set to before
\* the reload.
C23_SettingsRoundTrip ==
    [][step'.kind = "reload" => settings' = settings]_vars

\* ---------------------------------------------------------------------------
\* Specification of the tick among the timers and the promise continuations
\* ---------------------------------------------------------------------------
\* A cell whose division countdown ends in the first tick and a cell that is
\* turning into a virus (its icon is being fetched) are about to meet head-on
\* next to the first letter of the logo, which both touch.  The bump
\* thresholds are set high: no letter is ejected.  The spawn timer does not
\* fire in this scenario: the continuations are those of the offspring's
\* mount, of the transform and of the death timer.
InitTick ==
    /\ RunningWith(<< MakeEntity("ripe", 1, 3550, 75 * U, BASE_SPEED, 0),
                      MakeEntity("turning", 2, 3550 + 2450, 75 * U, -BASE_SPEED, 0) >>,
                   TurningOf(<<"ripe", "turning">>),
                   IconNames, [DefaultSettings EXCEPT !.bumpMin = 8, !.bumpMax = 10])
    /\ kicks = MaxKicks
    /\ logo = [ready |-> TRUE, wordX |-> 210 * U, wordY |-> 75 * U,
               wordVx |-> LOGO_WORD_BASE_SPEED, wordVy |-> 0,
               letters |-> [i \in Slots |->
                  [LogoLetterAt(i, 210 * U, 75 * U, 0, "attached") EXCEPT !.bumpThreshold = 8]]]

NextTick ==
    \/ TickSteps \/ DivideCell
    \/ MountDone \/ TransformFetched \/ TransformSwap \/ DeathTimeout

SpecTick == InitTick /\ [][NextTick]_vars

\* The steps of timers and promise continuations: a mount that completes, a
\* transform's fetch or swap, a death timer.
CallbackKinds == {"mount", "fetched", "swap", "destroy"}

\* C24: the steps of a tick run in the order update of every entity, division
\* block, logo update, entity-entity collisions, entity-letter collisions,
\* pruning; each phase is left only for the next one, and from the update to
\* the pruning no timer or continuation runs: no step of a callback is taken
\* and no continuation in flight is consumed.  The pruning leaves no dead
\* entity in the collection.
C24_TickOrder ==
    [][ /\ (pc = "idle" /\ pc' # "idle") =>
              /\ pc' = "divide" /\ step'.kind = "update"
              /\ Len(entities') = Len(entities)
        /\ pc = "divide" =>
              \/ pc' = "divide" /\ step'.kind = "divide"
              \/ pc' = "logo" /\ entities' = entities /\ pending' = pending
        /\ pc = "logo" =>
              /\ pc' = "collide" /\ (logo.ready => step'.kind = "logo")
              /\ entities' = entities /\ pending' = pending
        /\ pc = "collide" =>
              \/ pc' = "collide" /\ step'.kind = "pair"
              \/ pc' = "letters" /\ entities' = entities /\ pending' = pending
        /\ pc = "letters" =>
              \/ pc' = "letters" /\ step'.kind = "bump"
              \/ /\ pc' = "idle" /\ step'.kind = "prune"
                 /\ \A i \in 1..Len(entities') : entities'[i].alive
                 /\ ticks' = ticks + 1
        /\ pc # "idle" =>
              /\ pending \subseteq pending'
              /\ timers' = timers /\ running' = running /\ totalCounts' = totalCounts
              /\ step'.kind \notin CallbackKinds
        /\ (step' # step /\ step'.kind \in CallbackKinds) => (pc = "idle" /\ pc' = "idle")
      ]_vars

\* A tick has reached its letter loop, after a division and a collision in
\* the same tick, while a mount and a death timer are waiting.
C24_Witness ==
    /\ pc = "letters" /\ step.kind = "bump"
    /\ \E p \in pending : p.kind = "mount" /\ p.origin = "offspring"
    /\ \E i \in 1..Len(entities) : entities[i].dying /\ entities[i].alive

\* ---------------------------------------------------------------------------
\* The kill roll of a virus contact (pairs of the first specification)
\* ---------------------------------------------------------------------------
\* The attacked entity of the last pair step as the impulse and the positional
\* correction left it, before #resolveVirusContact.
TargetBeforeRoll ==
    LET q == PushApart(Impulse(pre[step.i], pre[step.j], step.nx, step.ny)[1],
                       Impulse(pre[step.i], pre[step.j], step.nx, step.ny)[2],
                       step.nx, step.ny, step.dist)
    IN  IF step.target = "a" THEN q[1] ELSE q[2]

\* min(1, max(0, virusKillChance - target.resistance) + virus.lethality) for
\* the last pair step.
KillChance ==
    Min(F, Max(0, settings.virusKillChance - DnaGet(TargetBeforeRoll.dna, "resistance"))
           + DnaGet(pre[VirusIndex].dna, "lethality"))

ImmuneForms == {"bug", "virus-filled", "bacteria"}

\* C26: whenever an entity enters the dying state, the step is a collision
\* pair (die() has no other caller), and the entity's form is none of 'bug',
\* 'virus-filled' and 'bacteria', neither when the pair is taken up nor once
\* it is resolved.
C26_ContactImmunity ==
    [][ \A i \in 1..Len(entities), j \in 1..Len(entities') :
           (entities'[j].id = entities[i].id /\ ~entities[i].dying /\ entities'[j].dying) =>
               /\ step'.kind = "pair" /\ pc = "collide"
               /\ entities[i].entityKey \notin ImmuneForms
               /\ entities'[j].entityKey \notin ImmuneForms
      ]_vars

\* A 'virus-filled' entity has collided with an entity of an immune form that
\* was spawned as a cell, and neither is dying.
C26_Witness ==
    /\ PairStep /\ step.target = "none"
    /\ pre[step.i].entityKey = "virus-filled" /\ pre[step.i].name = "virus-filled"
    /\ pre[step.j].entityKey \in ImmuneForms /\ pre[step.j].name = "cell"
    /\ ~entities[step.i].dying /\ ~entities[step.j].dying

\* ---------------------------------------------------------------------------
\* A bug in a collision pair (pairs of the first specification)
\* ---------------------------------------------------------------------------
\* Exactly one entity of the last pair step was a 'bug' when the pair was
\* taken up; BugIndex is its index and StruckIndex the other's.
BugPair == PairStep /\ (pre[step.i].entityKey = "bug") # (pre[step.j].entityKey = "bug")
BugIndex == IF pre[step.i].entityKey = "bug" THEN step.i ELSE step.j
StruckIndex == IF pre[step.i].entityKey = "bug" THEN step.j ELSE step.i

\* (a.vx - b.vx) * nx + (a.vy - b.vy) * ny of the last pair step.
ClosingSpeed ==
    Rnd((pre[step.i].vx - pre[step.j].vx) * step.nx
          + (pre[step.i].vy - pre[step.j].vy) * step.ny, F)

BugPairApart ==
    /\ BugPair /\ ClosingSpeed <= 0
    /\ pre[StruckIndex].entityKey = "cell"
    /\ MovedX(StruckIndex) # 0

\* ---------------------------------------------------------------------------
\* The letters of the word (specification of the logo)
\* ---------------------------------------------------------------------------
\* Every letter of g that is not ejected sits on its slot, at rest.
AttachedOnSlots(g) ==
    \A i \in Slots :
        ~g.letters[i].ejected =>
            /\ g.letters[i].x = g.wordX + (2 * (i - 1) - 9) * (LOGO_LETTER_GAP \div 2)
            /\ g.letters[i].y = g.wordY
            /\ g.letters[i].vx = 0 /\ g.letters[i].vy = 0

\* C28: from the logo update of a tick to the end of that tick, every letter
\* that is not ejected is at (wordX + (slotIndex - 4.5) * LOGO_LETTER_GAP,
\* wordY) with velocity (0, 0); the entity-entity collisions leave the logo as
\* it is, and a bump moves no letter.
C28_RigidAttachment ==
    [][ /\ (logo'.ready /\ (pc' \in {"collide", "letters"} \/ step'.kind = "prune"))
              => AttachedOnSlots(logo')
        /\ pc = "collide" => logo' = logo
        /\ pc = "letters" =>
              /\ logo'.wordX = logo.wordX /\ logo'.wordY = logo.wordY
              /\ \A i \in Slots : /\ logo'.letters[i].x = logo.letters[i].x
                                  /\ logo'.letters[i].y = logo.letters[i].y
      ]_vars

\* The word has moved, a letter that stays attached has just been bumped, and
\* another letter is back on its slot after a flight.
C28_Witness ==
    /\ step.kind = "bump" /\ pc = "letters"
    /\ ~logo.letters[step.slot].ejected /\ logo.letters[step.slot].bumpCount > 0
    /\ logo.wordX # 210 * U
    /\ \E i \in Slots : ~logo.letters[i].ejected /\ logo.letters[i].totalHits = 2

\* ---------------------------------------------------------------------------
\* An entity against a letter (specification of the logo)
\* ---------------------------------------------------------------------------
\* The last step handled the contact of pre[step.i] with the letter
\* step.before of slot step.slot.
BumpStep == step.kind = "bump"

\* Collision normal of the last bump, from the letter to the entity, and the
\* entity's velocity relative to the letter along it, before and after.
BumpDist == Hypot(pre[step.i].x - step.before.x, pre[step.i].y - step.before.y)
BumpNx == Rnd((pre[step.i].x - step.before.x) * F, BumpDist)
BumpNy == Rnd((pre[step.i].y - step.before.y) * F, BumpDist)
ApproachBefore ==
    (pre[step.i].vx - step.before.vx) * BumpNx + (pre[step.i].vy - step.before.vy) * BumpNy
ApproachAfter ==
    (entities[step.i].vx - step.before.vx) * BumpNx
      + (entities[step.i].vy - step.before.vy) * BumpNy

\* The scenes: an entity starts above or below the gap between the first two
\* letters of the word, within reach of both, heading in any direction; a
\* second one is about to touch the last letter, which is attached or flying.
WallOffsets == {<<8 * U, -22 * U>>, <<16 * U, -22 * U>>, <<16 * U, 22 * U>>}

InitWall ==
    /\ \E o \in WallOffsets, dir \in Directions :
          Running(<< MakeEntity("cell", 1, 66 * U + o[1], 75 * U + o[2],
                                Rnd(dir[1] * BASE_SPEED, F), Rnd(dir[2] * BASE_SPEED, F)),
                     MakeEntity("bacteria", 2, 38450, 115 * U, -BASE_SPEED, 0) >>, {})
    /\ kicks = MaxKicks
    /\ \E last \in {"attached", "far"} :
          logo = [ready |-> TRUE, wordX |-> 210 * U, wordY |-> 75 * U,
                  wordVx |-> 0, wordVy |-> LOGO_WORD_BASE_SPEED,
                  letters |-> [i \in Slots |-> LogoLetterAt(i, 210 * U, 75 * U, 1, last)]]

NextWall ==
    \/ TickUpdate \/ DivideDone \/ LogoUpdate \/ CollideDone \/ LetterHit \/ TickEnd

SpecWall == InitWall /\ [][NextWall]_vars

\* The bump of the last step made its letter fly.
BumpEjected == ~step.before.ejected /\ logo.letters[step.slot].ejected

\* What every handled contact does besides the reflection: the entity was
\* live and not dying, the letter mounted, their distance within the
\* diameter and not 0; the entity alone is pushed out along the normal by
\* the whole overlap; the letter has one more bump (its cycle counter is back
\* at 0 when the bump made it fly), is where it was, and keeps its velocity
\* unless the bump made it fly; nothing else moves.
BumpEffects ==
    /\ pre[step.i].alive /\ ~pre[step.i].dying /\ step.before.mounted
    /\ 0 < BumpDist /\ BumpDist < LOGO_COLLISION_DIAMETER
    /\ entities[step.i].x = pre[step.i].x + Rnd((LOGO_COLLISION_DIAMETER - BumpDist) * BumpNx, F)
    /\ entities[step.i].y = pre[step.i].y + Rnd((LOGO_COLLISION_DIAMETER - BumpDist) * BumpNy, F)
    /\ logo.letters[step.slot].totalHits = step.before.totalHits + 1
    /\ logo.letters[step.slot].bumpCount =
          IF BumpEjected THEN 0 ELSE step.before.bumpCount + 1
    /\ logo.letters[step.slot].x = step.before.x
    /\ logo.letters[step.slot].y = step.before.y
    /\ ~BumpEjected =>
          /\ logo.letters[step.slot].vx = step.before.vx
          /\ logo.letters[step.slot].vy = step.before.vy
          /\ logo.letters[step.slot].ejected = step.before.ejected
    /\ \A n \in 1..Len(entities) : n # step.i => entities[n] = pre[n]

\* The entity's velocity after the last bump is its velocity before,
\* reflected off the letter along the normal.
Reflected ==
    /\ entities[step.i].vx = pre[step.i].vx - Rnd(2 * Rnd(ApproachBefore, F) * BumpNx, F)
    /\ entities[step.i].vy = pre[step.i].vy - Rnd(2 * Rnd(ApproachBefore, F) * BumpNy, F)

\* The entity's velocity is what it was before the last bump.
VelocityKept ==
    /\ entities[step.i].vx = pre[step.i].vx
    /\ entities[step.i].vy = pre[step.i].vy

InitPush ==
    /\ \E kb \in {"cell", "virus", "bug", "bacteria"}, m \in Meetings :
          Running(<< MakeEntity("cell", 1, ICON_HALF + 20, 60 * U, -Abs(m[3]), m[4]),
                     MakeEntity(kb, 2, ICON_HALF + 20 + m[1], 60 * U + m[2], m[5], m[6]) >>,
                  {})
    /\ logo = NoLogo
    /\ kicks = 0

NextPush ==
    \/ TickUpdate \/ DivideDone \/ LogoUpdate \/ CollidePair \/ CollideDone \/ TickEnd
    \/ DeathTimeout

SpecPush == InitPush /\ [][NextPush]_vars

\* C30 (as claimed): once the first update has run, in every state, also
\* right after the positional correction of a collision, the centre of every
\* entity of the collection is inside the viewport by ICON_HALF on each side.
C30_InBounds ==
    (pc # "idle" \/ ticks > 0) =>
        \A n \in 1..Len(entities) :
            (entities[n].alive /\ entities[n].el) =>
                /\ ICON_HALF <= entities[n].x /\ entities[n].x <= viewport.w - ICON_HALF
                /\ ICON_HALF <= entities[n].y /\ entities[n].y <= viewport.h - ICON_HALF

\* ---------------------------------------------------------------------------
\* Specification of the word's origin: restored positions and resizes
\* ---------------------------------------------------------------------------
\* No entity; the word starts in the middle of the viewport or where a
\* snapshot taken on another window had it (next to the left edge, or beyond
\* the right edge of this window), drifting in any direction.  The window is
\* resized between ticks, also to a width under the word's span.
WordStarts == {210 * U, 10 * U, 600 * U}

InitWord ==
    /\ Running(<<>>, {})
    /\ kicks = MaxKicks
    /\ \E x \in WordStarts, dir \in Directions :
          logo = [ready |-> TRUE, wordX |-> x, wordY |-> 75 * U,
                  wordVx |-> Rnd(dir[1] * LOGO_WORD_BASE_SPEED, F),
                  wordVy |-> Rnd(dir[2] * LOGO_WORD_BASE_SPEED, F),
                  letters |-> [i \in Slots |-> LogoLetterAt(i, x, 75 * U, 0, "attached")]]

NextWord ==
    \/ TickUpdate \/ DivideDone \/ LogoUpdate \/ CollideDone \/ TickEnd
    \/ Resize

SpecWord == InitWord /\ [][NextWord]_vars

\* Half the word's span: 4.5 * LOGO_LETTER_GAP + LOGO_LETTER_HALF, and
\* LOGO_LETTER_HALF.
WordHalfW == (9 * LOGO_LETTER_GAP) \div 2 + LOGO_LETTER_HALF
WordHalfH == LOGO_LETTER_HALF

\* The word's origin is inside the viewport by half its span on each side.
WordInside ==
    /\ WordHalfW <= logo.wordX /\ logo.wordX <= viewport.w - WordHalfW
    /\ WordHalfH <= logo.wordY /\ logo.wordY <= viewport.h - WordHalfH

\* C31 (as claimed): after every logo update the word's origin is inside the
\* viewport by half the word's span on each side, whatever the viewport size
\* read in that tick and wherever the word started.
C31_WordOrigin ==
    step.kind = "logo" => WordInside

\* C31 (amended): the same, for the viewports that are at least as wide and
\* as high as the word's span.
C31_WordOriginWhenItFits ==
    (step.kind = "logo" /\ viewport.w >= 2 * WordHalfW /\ viewport.h >= 2 * WordHalfH)
        => WordInside

\* A word restored beyond the right edge has been brought back onto the
\* bound of a window that was resized before the tick.
C31_Witness ==
    /\ step.kind = "logo"
    /\ viewport.w = 360 * U
    /\ logo.wordX = viewport.w - WordHalfW
    /\ logo.wordVx < 0

\* ---- Entities between the request and the end of a transform ----
\* A call of infectWith on the entity with this id has not finished yet.
Transforming(id) == \E p \in pending : p.kind \in {"fetch", "swap"} /\ p.id = id

\* C32 (as claimed): while a transform of an entity is pending, resolving a
\* pair it belongs to is no collision response and no type interaction:
\* neither entity of the pair changes and no transform is requested.
C32_PendingIsolation ==
    [][(step'.kind = "pair"
          /\ (Transforming(entities[step'.i].id) \/ Transforming(entities[step'.j].id)))
        => /\ entities'[step'.i] = entities[step'.i]
           /\ entities'[step'.j] = entities[step'.j]
           /\ pending' = pending]_vars

\* C32, the type interactions alone: while a transform of an entity is
\* pending, a pair it belongs to neither kills nor transforms.
C32_NoTypeInteraction ==
    [][(step'.kind = "pair"
          /\ (Transforming(entities[step'.i].id) \/ Transforming(entities[step'.j].id)))
        => /\ entities'[step'.i].dying = entities[step'.i].dying
           /\ entities'[step'.j].dying = entities[step'.j].dying
           /\ entities'[step'.i].entityKey = entities[step'.i].entityKey
           /\ entities'[step'.j].entityKey = entities[step'.j].entityKey]_vars

\* ---------------------------------------------------------------------------
\* Specification of the simulation: one cell about to divide
\* ---------------------------------------------------------------------------
\* Two cells far apart.  The first carries a division_rate gene (0.7, or 2.5,
\* the largest) and its countdown reaches 0 in the first tick.
RipeRates == {(7 * F) \div 10, GENE_DEFS["division_rate"].max}

InitRipe ==
    /\ \E rate \in RipeRates :
          Running(<< [MakeEntity("ripe", 1, 100 * U, 60 * U, BASE_SPEED, 0)
                        EXCEPT !.dna = DnaSet(EmptyDna, "division_rate", rate)],
                     MakeEntity("cell", 2, 300 * U, 60 * U, BASE_SPEED, 0) >>, {})
    /\ logo = NoLogo
    /\ kicks = MaxKicks

NextRipe ==
    \/ TickUpdate \/ DivideCell \/ DivideDone \/ LogoUpdate \/ CollidePair \/ CollideDone
    \/ TickEnd \/ MountDone

SpecRipe == InitRipe /\ [][NextRipe]_vars

\* The bounds of a countdown drawn by resetDivision for the entity e.
IntervalMin(e) == Rnd(DIVISION_INTERVAL_MIN * F, DnaGet(e.dna, "division_rate"))
IntervalMax(e) == Rnd(DIVISION_INTERVAL_MAX * F, DnaGet(e.dna, "division_rate"))

\* C33: the step in which a cell divides leaves its countdown at a value
\* between round(DIVISION_INTERVAL_MIN / rate) and
\* round(DIVISION_INTERVAL_MAX / rate), rate being its division_rate, while
\* the offspring is not in the collection and its mount is still in flight;
\* the cell does not want to divide when the step is over, an update takes at
\* most 1 off a countdown, and so a cell that has divided in a tick does not
\* divide in the next tick, however long the mount takes: here only the first
\* cell divides, and only in the first tick.
C33_DivisionReset ==
    [][ /\ (step'.kind = "divide" /\ step' # step) =>
              LET e == entities'[step'.i]
              IN  /\ IntervalMin(e) <= e.divTimer /\ e.divTimer <= IntervalMax(e)
                  /\ e.divTimer > 1
                  /\ ~WantsToDivide(e)
                  /\ Len(entities') = Len(entities)
                  /\ \E p \in pending' \ pending :
                        p.kind = "mount" /\ p.origin = "offspring" /\ p.ent.id = step'.child
                  /\ \A j \in 1..Len(entities') : entities'[j].id # step'.child
        /\ (pc = "idle" /\ pc' = "divide") =>
              \A j \in 1..Len(entities) :
                 entities[j].divTimer > 1 => entities'[j].divTimer >= entities[j].divTimer - 1
        /\ (step'.kind = "divide" /\ step' # step) => (ticks = 0 /\ step'.i = 1)
      ]_vars

\* The cell with the gene 0.7 has divided and drawn the longest countdown,
\* round(3600 / 0.7) = 5143, while its offspring is still mounting.
C33_Witness ==
    /\ step.kind = "divide"
    /\ DnaGet(entities[step.i].dna, "division_rate") = (7 * F) \div 10
    /\ entities[step.i].divTimer = 5143
    /\ \E p \in pending : p.kind = "mount" /\ p.ent.id = step.child
    /\ Len(entities) = 2

\* ---------------------------------------------------------------------------
\* Specification of the simulation: a division while an offspring is mounting
\* ---------------------------------------------------------------------------
\* The grid of the cap scenario, one entity under the cap.  The first cell's
\* countdown reaches 0 in the first tick; the offspring of a division of the
\* last cell, decided in the tick before, is still waiting for its mount.
EarlierOffspring ==
    LET p == GridCell(MAX_POPULATION - 1)
    IN  NewEntity(MAX_POPULATION, "cell", p.x, p.y, -BASE_SPEED, 0, 90, EmptyDna)

InitBrood ==
    /\ Running([i \in 1..(MAX_POPULATION - 1) |-> GridCell(i)],
               {[kind |-> "mount", origin |-> "offspring", ent |-> MountStart(EarlierOffspring),
                 hit |-> TRUE]})
    /\ logo = NoLogo
    /\ kicks = MaxKicks

NextBrood ==
    \/ TickUpdate \/ DivideCell \/ DivideDone \/ LogoUpdate \/ CollidePair \/ CollideDone
    \/ TickEnd \/ MountDone

SpecBrood == InitBrood /\ [][NextBrood]_vars

\* C35 (as claimed): the collection never holds more than MAX_POPULATION
\* entities when every entity above the starting population is an offspring
\* of a division.
C35_PopulationCap ==
    Len(entities) <= MAX_POPULATION

\* ---------------------------------------------------------------------------
\* Specification of the DNA operations: deserialise on any parsed object
\* ---------------------------------------------------------------------------
\* What JSON.parse can return for a stored dna: the inputs of the DNA
\* scenario, and objects with a key that GENE_DEFS does not define but every
\* object inherits.
ParsedInputs(d) ==
    JsonInputs(d) \cup
    { JsObj([k \in {"speed", "constructor"} |-> JsNum(F)]),
      JsObj([k \in {"toString"} |-> JsNum(0)]) }

DnaDeserialiseParsed ==
    /\ dnaCall.gen < MaxGen
    /\ \E obj \in ParsedInputs(dnaCur) :
          /\ dnaCur' = Deserialise(obj)
          /\ dnaCall' = [op |-> "deserialise", gen |-> dnaCall.gen + 1, arg |-> obj,
                         from |-> dnaCur]
    /\ UNCHANGED simVars

NextParse == DnaDeserialiseParsed \/ DnaReproduce \/ DnaWithGenes \/ DnaForVirus
SpecParse == InitDNA /\ [][NextParse]_vars

\* C34 (as claimed): deserialise(d.serialise()) has exactly the genes and
\* values of d when d is within range; for any other argument the DNA returned
\* is empty when the argument is null or no object, and otherwise holds
\* exactly the keys of the argument that GENE_DEFS defines and whose value is
\* a number, each with its value clamped into [min, max].
C34_DeserialiseRoundTrip ==
    dnaCall.op = "deserialise" =>
        LET obj == dnaCall.arg
        IN  /\ (obj = Serialise(dnaCall.from) /\ InRange(dnaCall.from)) => dnaCur = dnaCall.from
            /\ obj.type # "object" => dnaCur = EmptyDna
            /\ obj.type = "object" =>
                  /\ DOMAIN dnaCur = {k \in DOMAIN obj.fields :
                                        k \in GeneNames /\ obj.fields[k].type = "number"}
                  /\ \A k \in DOMAIN dnaCur :
                        dnaCur[k] = Max(GENE_DEFS[k].min, Min(GENE_DEFS[k].max, obj.fields[k].v))

\* ---------------------------------------------------------------------------
\* Specification of clear() against the mounts in flight
\* ---------------------------------------------------------------------------
\* Two cells far apart, each with an offspring that is mounting.  Nothing is
\* spawned and nothing divides from here on: every mount that completes was
\* started before any clear().
InitWipe ==
    /\ Running(<< MakeEntity("cell", 1, 60 * U, 40 * U, BASE_SPEED, 0),
                  MakeEntity("cell", 2, 300 * U, 40 * U, BASE_SPEED, 0) >>,
               { [kind |-> "mount", origin |-> "offspring", hit |-> TRUE,
                  ent |-> MountStart(Spawned(3, "cell", <<60 * U, 100 * U>>,
                                             <<0, F>>, EmptyDna))],
                 [kind |-> "mount", origin |-> "offspring", hit |-> TRUE,
                  ent |-> MountStart(Spawned(4, "cell", <<300 * U, 100 * U>>,
                                             <<F, 0>>, EmptyDna))] })
    /\ logo = NoLogo
    /\ kicks = MaxKicks

NextWipe ==
    \/ TickUpdate \/ DivideDone \/ LogoUpdate \/ CollideDone \/ TickEnd
    \/ MountDone \/ Clear

SpecWipe == InitWipe /\ [][NextWipe]_vars

\* clear() has run after the first tick: it is the only step that moves the
\* baseline of the elapsed time.
Wiped == timers.start > 0

\* C36 (as claimed): once clear() has returned, the collection holds no
\* entity and no cumulative total is incremented unless by a spawn or division
\* started after it; with none started, the collection stays empty and the
\* totals stay at zero, whatever mount was in flight when clear() ran.
C36_NoLeakage ==
    Wiped => /\ entities = <<>>
             /\ \A k \in IconNames : totalCounts[k] = 0

\* ---------------------------------------------------------------------------
\* Specification of a cure that overtakes an infection
\* ---------------------------------------------------------------------------
\* The scenario of the two bug contacts with a fresh cell, before any
\* 'virus-filled' entity has existed: the icon of that form is not cached, so
\* the infection started by the first bug waits for the network while the
\* cure started by the second bug finds its icon in the cache.
InitOverlap ==
    /\ \E k \in {"cell", "resistant", "shielded"} :
          RunningWith(<< MakeEntity("bug", 1, 100 * U - 2450, 60 * U, BASE_SPEED, 0),
                         MakeEntity(k, 2, 100 * U, 60 * U, 0, 0),
                         MakeEntity("bug", 3, 100 * U + 2550, 60 * U, -BASE_SPEED, 0) >>,
                      {}, {"cell", "bug"}, SceneSettings)
    /\ logo = NoLogo
    /\ kicks = MaxKicks

NextOverlap ==
    \/ TickUpdate \/ DivideDone \/ LogoUpdate \/ CollidePair \/ CollideDone \/ TickEnd
    \/ TransformFetched \/ TransformSwap

SpecOverlap == InitOverlap /\ [][NextOverlap]_vars

\* C37 (as claimed): a live entity none of whose infectWith calls is still in
\* flight has its division countdown enabled (>= 0) when its form is 'cell'
\* and disabled (-1) when it is not, whatever the order in which the calls
\* completed.
C37_TransformsConverge ==
    \A i \in 1..Len(entities) :
        (entities[i].alive /\ ~entities[i].dying /\ ~Transforming(entities[i].id)) =>
            IF entities[i].entityKey = "cell"
               THEN entities[i].divTimer >= 0
               ELSE entities[i].divTimer = -1

\* ---------------------------------------------------------------------------
\* Specification of the simulation: a letter springing back into an entity
\* ---------------------------------------------------------------------------
\* The last letter flies 40 px under its slot and the spring pulls it back; a
\* cell lies between the letter and the slot, moving at BASE_SPEED in any
\* direction.  No drift kick is drawn.
InitFling ==
    /\ \E dir \in Directions :
          Running(<< MakeEntity("cell", 1, 354 * U, 86 * U,
                                Rnd(dir[1] * BASE_SPEED, F), Rnd(dir[2] * BASE_SPEED, F)) >>, {})
    /\ kicks = MaxKicks
    /\ \E wdir \in Directions :
          logo = [ready |-> TRUE, wordX |-> 210 * U, wordY |-> 75 * U,
                  wordVx |-> Rnd(wdir[1] * LOGO_WORD_BASE_SPEED, F),
                  wordVy |-> Rnd(wdir[2] * LOGO_WORD_BASE_SPEED, F),
                  letters |-> [i \in Slots |-> LogoLetterAt(i, 210 * U, 75 * U, 0, "far")]]

NextFling ==
    \/ TickUpdate \/ DivideDone \/ LogoUpdate \/ CollideDone \/ LetterHit \/ TickEnd

SpecFling == InitFling /\ [][NextFling]_vars

\* DEFAULTS.BASE_SPEED * DEFAULTS.MAX_SPEED_FACTOR
MaxSpeed == Rnd(BASE_SPEED * MAX_SPEED_FACTOR, F)

\* C38 (as claimed): the speed hypot(vx, vy) of every entity of the collection
\* is at most BASE_SPEED * MAX_SPEED_FACTOR in every reachable state.
C38_SpeedCap ==
    \A i \in 1..Len(entities) : Hypot(entities[i].vx, entities[i].vy) <= MaxSpeed

\* ---- Cumulative counts against the collection ----
\* C39 (as claimed): for every form key, the cumulative total is at least the
\* number of entities of the collection whose current form is that key.
C39_TotalsDominate ==
    \A k \in IconNames : totalCounts[k] >= FormCount(entities, k)

====
